---------------------------- MODULE Spec2Model ----------------------------
(***************************************************************************)
(* Model of the credit-card invoice accounting engine of the personal      *)
(* finance backend: calendar arithmetic, invoice assignment, installment   *)
(* generation, the recurrence engine and the transaction service.          *)
(*                                                                         *)
(* A JavaScript Date is modelled as an integer: the number of whole hours  *)
(* since 1970-01-01T00:00Z (getTime() / 3600000).  The server runs with    *)
(* TZ = America/Sao_Paulo (src/src/server.ts:47), which is UTC-3 without   *)
(* daylight saving for every date from 2019 on; all dates of the model are *)
(* later than that, so local time is UTC minus BrazilOffsetHours.          *)
(* Amounts are integers: cents (the column is DECIMAL(15,2)).              *)
(***************************************************************************)
EXTENDS Integers, Sequences, FiniteSets, TLC

VARIABLES
    now,           \* the clock: what `new Date()` returns
    accounts,      \* table accounts:      id -> [userId, initialBalance]
    transfers,     \* table transfers:     sequence of rows in insertion order
    categories,    \* table categories:    id -> [userId]
    goals,         \* table goals:         sequence of rows
    goalContributions, \* table goal_contributions: sequence of rows
    contrib,       \* the POST /goals/:id/contributions requests in flight
    edit,          \* a request in flight between its lookup and its write
    creditCards,   \* table credit_cards:  id -> [userId, closingDay, dueDay]
    recurrences,   \* table recurrences:   sequence of rows, id = position
    transactions,  \* table transactions:  sequence of rows in insertion order
    gen,           \* the POST /generate requests in flight, one per worker
    lastId,        \* per table, how many ids have been handed out so far
    response,      \* outcome of the last request that completed
    calc           \* input and result of a direct call of a pure function

vars == <<now, accounts, transfers, categories, goals, goalContributions, contrib,
          edit, creditCards, recurrences, transactions, gen, lastId, response, calc>>

\* null / undefined: NULL for a string column, NONE for a date or a number.
NULL == "null"
NONE == -1

(***************************************************************************)
(* Calendar: days since 1970-01-01 <-> proleptic Gregorian civil date.     *)
(***************************************************************************)
BrazilOffsetHours == 3

\* Day number of year y, month m (1..12), day d; d may lie outside the month,
\* the result then runs over into the neighbouring months (ECMAScript MakeDay).
\* The computation is cut in steps, each a definition of its own: a year
\* starting in March (yy) and the month counted from March (mp), then the
\* 400-year era, the year of the era (yoe) and the day of the year (doy).
DaysOfEra(era, yoe, doy) ==
    era * 146097 + yoe * 365 + yoe \div 4 - yoe \div 100 + doy - 719468

DaysOfYear(yy, mp, d) ==
    DaysOfEra(yy \div 400, yy % 400, (153 * mp + 2) \div 5 + d - 1)

DaysFromCivil(y, m, d) ==
    DaysOfYear(IF m <= 2 THEN y - 1 ELSE y, IF m > 2 THEN m - 3 ELSE m + 9, d)

\* The civil date [year, month (0..11, as JavaScript counts), date] of a day
\* number, in steps as well: day of the era (doe), year of the era (yoe), day
\* of the year (doy), month counted from March (mp).
CivilOfMonth(era, yoe, d, m) ==
    [year |-> yoe + era * 400 + (IF m <= 2 THEN 1 ELSE 0), month |-> m - 1, date |-> d]

CivilOfMp(era, yoe, doy, mp) ==
    CivilOfMonth(era, yoe, doy - (153 * mp + 2) \div 5 + 1,
                 IF mp < 10 THEN mp + 3 ELSE mp - 9)

CivilOfDoy(era, yoe, doy) == CivilOfMp(era, yoe, doy, (5 * doy + 2) \div 153)

CivilOfYoe(era, doe, yoe) ==
    CivilOfDoy(era, yoe, doe - (365 * yoe + yoe \div 4 - yoe \div 100))

CivilOfDoe(era, doe) ==
    CivilOfYoe(era, doe,
               (doe - doe \div 1460 + doe \div 36524 - doe \div 146096) \div 365)

CivilFromDays(z) ==
    CivilOfDoe((z + 719468) \div 146097, (z + 719468) % 146097)

\* ECMAScript MakeDay(year, month, date): month is 0-based and may be any
\* integer (it carries into the year), date may be any integer.
MakeDay(year, month, date) ==
    DaysFromCivil(year + month \div 12, (month % 12) + 1, 1) + date - 1

\* Date.UTC(year, month, date, hours)
DateUTC(year, month, date, hours) == MakeDay(year, month, date) * 24 + hours

\* new Date(year, month, date): midnight local time
NewDate(year, month, date) == MakeDay(year, month, date) * 24 + BrazilOffsetHours

\* new Date("YYYY-MM-DD"): a date-only string is parsed as midnight UTC
ParseDate(ymd) == DateUTC(ymd[1], ymd[2] - 1, ymd[3], 0)

LocalCivil(t) == CivilFromDays((t - BrazilOffsetHours) \div 24)
LocalHour(t)  == (t - BrazilOffsetHours) % 24
UTCCivil(t)   == CivilFromDays(t \div 24)

getFullYear(t)    == LocalCivil(t).year
getMonth(t)       == LocalCivil(t).month
getDate(t)        == LocalCivil(t).date
getUTCFullYear(t) == UTCCivil(t).year
getUTCMonth(t)    == UTCCivil(t).month
getUTCDate(t)     == UTCCivil(t).date

\* Date.prototype.setDate / setMonth / setFullYear / setHours: local fields,
\* the time within the day is kept, overflow carries.
setDate(t, date) ==
    MakeDay(getFullYear(t), getMonth(t), date) * 24 + LocalHour(t) + BrazilOffsetHours
setMonth(t, month) ==
    MakeDay(getFullYear(t), month, getDate(t)) * 24 + LocalHour(t) + BrazilOffsetHours
setFullYear(t, year) ==
    MakeDay(year, getMonth(t), getDate(t)) * 24 + LocalHour(t) + BrazilOffsetHours
setHours(t, hours) ==
    MakeDay(getFullYear(t), getMonth(t), getDate(t)) * 24 + hours + BrazilOffsetHours

\* Number of days of the month (0-based) of a year.
DaysInMonth(year, month) == MakeDay(year, month + 1, 1) - MakeDay(year, month, 1)

(***************************************************************************)
(* src/src/utils/date.ts                                                   *)
(***************************************************************************)
adjustToBrazilTimezone(date) == setHours(date, LocalHour(date) + 3)

parseDateToBrazilTimezone(ymd) == adjustToBrazilTimezone(ParseDate(ymd))

(***************************************************************************)
(* src/src/services/transactionService.ts: calendar arithmetic             *)
(***************************************************************************)
normalizeDate(date) ==
    DateUTC(getUTCFullYear(date), getUTCMonth(date), getUTCDate(date), 3)

calculateInvoiceDueDate(purchaseDate, closingDay, dueDay) ==
    LET purchaseDay  == getDate(purchaseDate)
        invoiceMonth == IF purchaseDay <= closingDay
                        THEN getMonth(purchaseDate)
                        ELSE getMonth(purchaseDate) + 1
        invoiceYear  == getFullYear(purchaseDate)
        finalMonth   == IF invoiceMonth > 11 THEN 0 ELSE invoiceMonth
        finalYear    == IF invoiceMonth > 11 THEN invoiceYear + 1 ELSE invoiceYear
    IN  NewDate(finalYear, finalMonth, dueDay)

(***************************************************************************)
(* src/src/routes/recurring.ts: calendar arithmetic                        *)
(***************************************************************************)
MONTHS_TO_GENERATE == 12

\* lastDate is NONE when the caller passes no fourth argument.
calculateNextDueDate(startDate, interval, intervalCount, lastDate) ==
    LET baseDate == IF lastDate # NONE THEN lastDate ELSE startDate
    IN  CASE interval = "DAY"   -> setDate(baseDate, getDate(baseDate) + intervalCount)
          [] interval = "WEEK"  -> setDate(baseDate, getDate(baseDate) + intervalCount * 7)
          [] interval = "MONTH" -> setMonth(baseDate, getMonth(baseDate) + intervalCount)
          [] interval = "YEAR"  -> setFullYear(baseDate, getFullYear(baseDate) + intervalCount)
          [] OTHER              -> baseDate

\* const maxFutureDate = new Date(); maxFutureDate.setMonth(getMonth() + 12)
MaxFutureDate(today) == setMonth(today, getMonth(today) + MONTHS_TO_GENERATE)

\* A horizon that leaves endDate out.
HorizonOnly(endDate, maxFutureDate) == maxFutureDate

EffectiveEndDate(endDate, maxFutureDate) ==
    IF endDate # NONE /\ endDate < maxFutureDate THEN endDate ELSE maxFutureDate

\* The loop `while (currentDate <= effectiveEndDate) { push; currentDate = next }`:
\* the dates pushed, and the value of currentDate when the loop ends.
RECURSIVE WalkDates(_, _, _, _, _, _)
WalkDates(currentDate, startDate, interval, intervalCount, effectiveEndDate, acc) ==
    IF currentDate <= effectiveEndDate
    THEN WalkDates(calculateNextDueDate(startDate, interval, intervalCount, currentDate),
                   startDate, interval, intervalCount, effectiveEndDate,
                   Append(acc, currentDate))
    ELSE [transactionDates |-> acc, currentDate |-> currentDate]

(***************************************************************************)
(* The store.  Foreign keys of table transactions (migration.sql:178-190): *)
(* accountId, categoryId and userId must name existing rows, creditCardId  *)
(* and recurrenceId must name one when they are not null.                  *)
(***************************************************************************)
Users == {"u1", "u2"}

InitAccounts    ==
    [a1 |-> [userId |-> "u1", initialBalance |-> 100000],
     a2 |-> [userId |-> "u2", initialBalance |-> 0],
     a3 |-> [userId |-> "u1", initialBalance |-> 50000]]
InitCategories  == [c1 |-> [userId |-> "u1"], c2 |-> [userId |-> "u2"]]
InitCreditCards ==
    [k1 |-> [userId |-> "u1", accountId |-> "a1", closingDay |-> 5,  dueDay |-> 10],
     k2 |-> [userId |-> "u2", accountId |-> "a2", closingDay |-> 25, dueDay |-> 31]]

\* A row of table recurrences keeps its place in the sequence when it is
\* deleted, so that the ids of the others stay what they were: the table holds
\* the rows with deleted = FALSE.
RecurrenceExists(id) == id \in 1..Len(recurrences) /\ ~recurrences[id].deleted

\* The foreign keys of a transaction row but recurrenceId.
ParentRowsExist(row) ==
    /\ row.accountId \in DOMAIN accounts
    /\ row.categoryId \in DOMAIN categories
    /\ row.userId \in Users
    /\ row.creditCardId # NULL => row.creditCardId \in DOMAIN creditCards

ForeignKeysHold(row) ==
    /\ ParentRowsExist(row)
    /\ row.recurrenceId # NONE => RecurrenceExists(row.recurrenceId)

\* A row of table transactions; the columns a request leaves out are null.
TransactionRow(id, data) ==
    [id |-> id, type |-> data.type, amount |-> data.amount, date |-> data.date,
     purchaseDate |-> data.purchaseDate, description |-> data.description,
     accountId |-> data.accountId, categoryId |-> data.categoryId,
     creditCardId |-> data.creditCardId,
     installmentNumber |-> data.installmentNumber,
     totalInstallments |-> data.totalInstallments,
     recurrenceId |-> data.recurrenceId,
     isRecurringCharge |-> data.isRecurringCharge,
     paid |-> data.paid, paidAt |-> data.paidAt, userId |-> data.userId]

\* Ids are never given twice: a new row takes the id after the last one its
\* table handed out, whether the row that had that one is still stored or not.
NoIds ==
    [transactions |-> 0, transfers |-> 0, accounts |-> 0, categories |-> 0,
     creditCards |-> 0]

Taken(table, n) == [lastId EXCEPT ![table] = @ + n]

NextTransactionId == lastId.transactions + 1

\* The ids of the rows POST /api/accounts, /api/categories and
\* /api/credit-cards store, in the order they are handed out.
NewAccountIds    == <<"a4", "a5">>
NewCategoryIds   == <<"c3", "c4">>
NewCreditCardIds == <<"k3", "k4">>

\* A string of a request body that JavaScript takes for true: given and not ''.
Truthy(s) == s # NULL /\ s # ""

IdleGen == [pc |-> "idle"]

AllIdle ==
    \A w \in DOMAIN gen :
        gen[w].pc = "idle" /\ edit[w].pc = "idle" /\ contrib[w].pc = "idle"

Workers == {"w1", "w2"}

NoResponse == [op |-> "none"]

NoCalc == [fn |-> "none"]

\* The answer of a handler that keeps no more than the outcome.
Answer(op, status, error) == [op |-> op, status |-> status, error |-> error]

\* DELETE /api/credit-cards/:id: deleteMany({ id, userId }); the foreign key
\* transactions.creditCardId is ON DELETE SET NULL.
DeleteCreditCard(userId, id) ==
    LET owned == id \in DOMAIN creditCards /\ creditCards[id].userId = userId
    IN  /\ UNCHANGED <<now, accounts, transfers, categories, edit, goals, goalContributions, contrib, recurrences, gen, calc, lastId>>
        /\ IF ~owned
           THEN /\ response' = Answer("deleteCreditCard", 404, "Credit card not found")
                /\ UNCHANGED <<creditCards, transactions>>
           ELSE /\ creditCards' = [k \in DOMAIN creditCards \ {id} |-> creditCards[k]]
                /\ transactions' =
                       [j \in 1..Len(transactions) |->
                           IF transactions[j].creditCardId = id
                           THEN [transactions[j] EXCEPT !.creditCardId = NULL]
                           ELSE transactions[j]]
                /\ response' = Answer("deleteCreditCard", 204, NULL)

(***************************************************************************)
(* Bounds and request inputs of the recurrence engine.                     *)
(***************************************************************************)
MaxRecurrences == 1
MaxAdvances == 2

\* 2024-01-15T00:00 local time
NowStart == NewDate(2024, 0, 15)

\* The instants at which requests arrive: 2024-01-15 at 00:00 and at 10:00,
\* then 10:00 every 62 days.
ClockAt(k) == IF k = 0 THEN NowStart ELSE NowStart + 10 + (k - 1) * 62 * 24

ClockIndex(t) == CHOOSE k \in 0..MaxAdvances : ClockAt(k) = t

NoYmd == <<>>

ParseOptional(ymd) == IF ymd = NoYmd THEN NONE ELSE parseDateToBrazilTimezone(ymd)

\* Request bodies of POST /api/recurring that pass createRecurringSchema:
\* <<interval, intervalCount, startDate, endDate>>, the other fields fixed;
\* RecurringInputs adds one the schema refuses.
RecurringChoices ==
    {<<"MONTH", 1, <<2024, 1, 31>>, NoYmd>>,
     <<"DAY",  30, <<2024, 1, 15>>, <<2024, 2, 20>>>>}

RecurringInputs ==
    {[type |-> "EXPENSE", amount |-> 5000, description |-> "Aluguel",
      interval |-> c[1], intervalCount |-> c[2],
      startDate |-> c[3], endDate |-> c[4],
      accountId |-> "a1", categoryId |-> "c1", creditCardId |-> NULL] :
        c \in RecurringChoices}
    \cup {[type |-> "EXPENSE", amount |-> 0, description |-> "Aluguel",
           interval |-> "MONTH", intervalCount |-> 1,
           startDate |-> <<2024, 1, 31>>, endDate |-> NoYmd,
           accountId |-> "a1", categoryId |-> "c1", creditCardId |-> NULL]}

\* Request bodies of PUT /api/recurring/:id: every field is optional.
NoPatch ==
    [type |-> NULL, amount |-> NONE, description |-> NULL, interval |-> NULL,
     intervalCount |-> NONE, startDate |-> NoYmd, endDate |-> NoYmd,
     accountId |-> NULL, categoryId |-> NULL, creditCardId |-> NULL]

UpdateInputs ==
    {[NoPatch EXCEPT !.interval = "WEEK", !.intervalCount = 26],
     [NoPatch EXCEPT !.startDate = <<2025, 11, 10>>, !.interval = "YEAR",
                     !.intervalCount = 1]}

\* Request bodies of the serial specification: those above, a recurrence
\* charged to card k1, one on an account that is not stored, and bodies the
\* schema refuses for their intervalCount, description or accountId.
SerialInputs ==
    RecurringInputs
    \cup {[data EXCEPT !.creditCardId = "k1"] :
              data \in {d \in RecurringInputs : d.interval = "MONTH" /\ d.amount > 0}}
    \cup {[data EXCEPT !.accountId = "a9"] :
              data \in {d \in RecurringInputs : d.interval = "DAY"}}
    \cup {[data EXCEPT !.intervalCount = 31] :
              data \in {d \in RecurringInputs : d.interval = "DAY"}}
    \cup {[data EXCEPT !.description = "", !.accountId = ""] :
              data \in {d \in RecurringInputs : d.interval = "DAY"}}

\* creditCardId: '' in the body of a PUT takes the card off the recurrence;
\* the last three are bodies updateRecurringSchema refuses.
SerialPatches ==
    UpdateInputs
    \cup {[NoPatch EXCEPT !.creditCardId = ""],
          [NoPatch EXCEPT !.amount = 0],
          [NoPatch EXCEPT !.intervalCount = 0],
          [NoPatch EXCEPT !.description = "", !.accountId = ""]}

(***************************************************************************)
(* src/src/routes/recurring.ts: the routes                                 *)
(***************************************************************************)
\* createRecurringSchema.parse: the message of the first issue in the order of
\* the schema's keys, NULL for a body that passes.  The type and the interval
\* are of their enums and the dates are strings in every body here; min(1)
\* carries the message of the library.
CreateRecurringIssue(data) ==
    IF data.amount <= 0 THEN "Amount must be positive"
    ELSE IF data.description = "" THEN "Description is required"
    ELSE IF data.intervalCount < 1 THEN "Number must be greater than or equal to 1"
    ELSE IF data.intervalCount > 30 THEN "Interval count must be between 1 and 30"
    ELSE IF data.accountId = "" THEN "Account ID is required"
    ELSE IF data.categoryId = "" THEN "Category ID is required"
    ELSE NULL

\* updateRecurringSchema = createRecurringSchema.partial(): the same checks on
\* the fields the body holds.
UpdateRecurringIssue(data) ==
    IF data.amount # NONE /\ data.amount <= 0 THEN "Amount must be positive"
    ELSE IF data.description = "" THEN "Description is required"
    ELSE IF data.intervalCount # NONE /\ data.intervalCount < 1
    THEN "Number must be greater than or equal to 1"
    ELSE IF data.intervalCount # NONE /\ data.intervalCount > 30
    THEN "Interval count must be between 1 and 30"
    ELSE IF data.accountId = "" THEN "Account ID is required"
    ELSE IF data.categoryId = "" THEN "Category ID is required"
    ELSE NULL

\* POST /api/recurring.  A body the schema refuses is answered 400 before any
\* store call.  The recurrence and its transactions are written in one
\* prisma.$transaction: when a transaction row names an account, a category or
\* a card that is not stored the create throws, everything is rolled back and
\* the catch answers 500.
CreateRecurring(userId, data) ==
    LET startDate        == parseDateToBrazilTimezone(data.startDate)
        endDate          == ParseOptional(data.endDate)
        maxFutureDate    == MaxFutureDate(now)
        effectiveEndDate == EffectiveEndDate(endDate, maxFutureDate)
        walk             == WalkDates(startDate, startDate, data.interval,
                                      data.intervalCount, effectiveEndDate, <<>>)
        nextDueDate      == walk.currentDate
        id               == Len(recurrences) + 1
        creditCardId     == IF data.creditCardId = "" THEN NULL ELSE data.creditCardId
        recurrence ==
            [id |-> id, type |-> data.type, interval |-> data.interval,
             intervalCount |-> data.intervalCount, startDate |-> startDate,
             endDate |-> endDate, totalInstallments |-> NONE,
             nextDueDate |-> nextDueDate, description |-> data.description,
             amount |-> data.amount, isActive |-> TRUE,
             accountId |-> data.accountId, categoryId |-> data.categoryId,
             creditCardId |-> creditCardId, userId |-> userId,
             deleted |-> FALSE]
        row(i) ==
            TransactionRow(lastId.transactions + i,
                [type |-> data.type, amount |-> data.amount,
                 date |-> walk.transactionDates[i], purchaseDate |-> NONE,
                 description |-> <<data.description>>,
                 accountId |-> data.accountId, categoryId |-> data.categoryId,
                 creditCardId |-> creditCardId,
                 installmentNumber |-> NONE, totalInstallments |-> NONE,
                 recurrenceId |-> id, isRecurringCharge |-> TRUE,
                 paid |-> FALSE, paidAt |-> NONE, userId |-> userId])
        rows == [i \in 1..Len(walk.transactionDates) |-> row(i)]
    IN  /\ Len(recurrences) < MaxRecurrences
        /\ IF CreateRecurringIssue(data) # NULL
           THEN /\ response' = [op |-> "createRecurring", status |-> 400,
                                userId |-> userId, id |-> NONE, clock |-> now,
                                generatedTransactions |-> 0,
                                error |-> CreateRecurringIssue(data)]
                /\ UNCHANGED <<recurrences, transactions, lastId>>
           ELSE IF \E i \in 1..Len(rows) : ~ParentRowsExist(rows[i])
           THEN /\ response' = [op |-> "createRecurring", status |-> 500,
                                userId |-> userId, id |-> NONE, clock |-> now,
                                generatedTransactions |-> 0,
                                error |-> "Foreign key constraint violated"]
                /\ UNCHANGED <<recurrences, transactions, lastId>>
           ELSE /\ recurrences' = Append(recurrences, recurrence)
                /\ transactions' = transactions \o rows
                /\ lastId' = Taken("transactions", Len(rows))
                /\ response' = [op |-> "createRecurring", status |-> 201,
                                userId |-> userId, id |-> id, clock |-> now,
                                generatedTransactions |-> Len(rows),
                                error |-> NULL]
        /\ UNCHANGED <<now, accounts, transfers, categories, edit, goals,
                       goalContributions, contrib, creditCards, gen, calc>>

\* A lookup by id alone.
FindAnyRecurrence(id, userId) == RecurrenceExists(id)

\* const existing = await prisma.recurrence.findFirst({ where: { id, userId } })
FindRecurrence(id, userId) ==
    RecurrenceExists(id) /\ recurrences[id].userId = userId

\* One entry of updateData: the field is set when the request gives it.
Given(present, field, value) == IF present THEN field :> value ELSE <<>>

\* const updateData: any = {}; if (data.type) updateData.type = data.type; ...
\* nextDueDate is computed from the request and the row findFirst returned.
\* In a request body NULL is a field left out and "" the empty string.
RecurrenceUpdateData(existing, data) ==
    LET startDate == IF data.startDate # NoYmd
                     THEN parseDateToBrazilTimezone(data.startDate)
                     ELSE existing.startDate
        interval == IF data.interval # NULL THEN data.interval ELSE existing.interval
        intervalCount == IF data.intervalCount # NONE THEN data.intervalCount
                         ELSE existing.intervalCount
        recalc == data.interval # NULL \/ data.intervalCount # NONE
                  \/ data.startDate # NoYmd
    IN  Given(data.type # NULL, "type", data.type)
        @@ Given(data.interval # NULL, "interval", data.interval)
        @@ Given(data.intervalCount # NONE, "intervalCount", data.intervalCount)
        @@ Given(data.startDate # NoYmd, "startDate", startDate)
        @@ Given(data.endDate # NoYmd, "endDate", ParseOptional(data.endDate))
        @@ Given(data.description # NULL, "description", data.description)
        @@ Given(data.amount # NONE, "amount", data.amount)
        @@ Given(data.accountId # NULL, "accountId", data.accountId)
        @@ Given(data.categoryId # NULL, "categoryId", data.categoryId)
        @@ Given(data.creditCardId # NULL, "creditCardId",
                 IF data.creditCardId = "" THEN NULL ELSE data.creditCardId)
        @@ Given(recalc, "nextDueDate",
                 calculateNextDueDate(startDate, interval, intervalCount, NONE))

\* prisma.recurrence.update({ where: { id }, data }) writes the fields of data
\* and leaves the others as they are in the stored row.
ApplyUpdate(row, data) ==
    [field \in DOMAIN row |-> IF field \in DOMAIN data THEN data[field] ELSE row[field]]

\* A handler that has read `existing` and is about to await the update.
AwaitUpdate(w, op, userId, id, data) ==
    edit' = [edit EXCEPT ![w] = [pc |-> "update", op |-> op, userId |-> userId,
                                 id |-> id, data |-> data, clock |-> now]]

\* PUT /api/recurring/:id, up to its update: the schema, then
\* recurrence.findFirst.
UpdateRecurring(w, userId, id, data) ==
    /\ edit[w].pc = "idle"
    /\ IF UpdateRecurringIssue(data) # NULL
       THEN /\ response' = [op |-> "updateRecurring", status |-> 400,
                            userId |-> userId, id |-> id,
                            error |-> UpdateRecurringIssue(data)]
            /\ UNCHANGED edit
       ELSE IF ~FindRecurrence(id, userId)
       THEN /\ response' = [op |-> "updateRecurring", status |-> 404,
                            userId |-> userId, id |-> id]
            /\ UNCHANGED edit
       ELSE /\ AwaitUpdate(w, "updateRecurring", userId, id,
                           RecurrenceUpdateData(recurrences[id], data))
            /\ UNCHANGED response
    /\ UNCHANGED <<now, accounts, transfers, categories, goals, goalContributions,
                   contrib, creditCards, recurrences, transactions, gen, calc, lastId>>

\* PATCH /api/recurring/:id/pause, up to its update
PauseRecurring(w, userId, id) ==
    /\ edit[w].pc = "idle"
    /\ IF ~FindRecurrence(id, userId)
       THEN /\ response' = [op |-> "pauseRecurring", status |-> 404,
                            userId |-> userId, id |-> id]
            /\ UNCHANGED edit
       ELSE /\ AwaitUpdate(w, "pauseRecurring", userId, id, [isActive |-> FALSE])
            /\ UNCHANGED response
    /\ UNCHANGED <<now, accounts, transfers, categories, goals, goalContributions,
                   contrib, creditCards, recurrences, transactions, gen, calc, lastId>>

\* Resuming from the stored value as it is.
NoFastForward(existing, nextDueDate, today) == nextDueDate

\* while (nextDueDate < today) nextDueDate = calculateNextDueDate(..., nextDueDate)
RECURSIVE FastForward(_, _, _)
FastForward(existing, nextDueDate, today) ==
    IF nextDueDate < today
    THEN FastForward(existing,
                     calculateNextDueDate(existing.startDate, existing.interval,
                                          existing.intervalCount, nextDueDate),
                     today)
    ELSE nextDueDate

\* PATCH /api/recurring/:id/resume, up to its update
ResumeRecurring(w, userId, id) ==
    /\ edit[w].pc = "idle"
    /\ IF ~FindRecurrence(id, userId)
       THEN /\ response' = [op |-> "resumeRecurring", status |-> 404,
                            userId |-> userId, id |-> id]
            /\ UNCHANGED edit
       ELSE LET existing == recurrences[id]
                today    == now
                from     == IF existing.nextDueDate # NONE THEN existing.nextDueDate
                            ELSE existing.startDate
                nextDueDate == FastForward(existing, from, today)
            IN  /\ AwaitUpdate(w, "resumeRecurring", userId, id,
                               [isActive |-> TRUE, nextDueDate |-> nextDueDate])
                /\ UNCHANGED response
    /\ UNCHANGED <<now, accounts, transfers, categories, goals, goalContributions,
                   contrib, creditCards, recurrences, transactions, gen, calc, lastId>>

\* await prisma.recurrence.update({ where: { id }, data }) of the three routes
\* above, and their answer: the row as it is stored now takes the fields of
\* data; with the row gone the update throws and the catch answers 500.
RecurrenceUpdate(w) ==
    /\ edit[w].pc = "update"
    /\ LET e == edit[w]
       IN  IF RecurrenceExists(e.id)
           THEN /\ recurrences' = [recurrences EXCEPT
                                     ![e.id] = ApplyUpdate(@, e.data)]
                /\ response' = [op |-> e.op, status |-> 200, userId |-> e.userId,
                                id |-> e.id, clock |-> e.clock]
           ELSE /\ UNCHANGED recurrences
                /\ response' = [op |-> e.op, status |-> 500, userId |-> e.userId,
                                id |-> e.id, clock |-> e.clock,
                                error |-> "Record to update not found"]
    /\ edit' = [edit EXCEPT ![w] = IdleGen]
    /\ UNCHANGED <<now, accounts, transfers, categories, goals, goalContributions,
                   contrib, creditCards, transactions, gen, calc, lastId>>

\* DELETE /api/recurring/:id, up to its delete
DeleteRecurring(w, userId, id) ==
    /\ edit[w].pc = "idle"
    /\ IF ~FindRecurrence(id, userId)
       THEN /\ response' = [op |-> "deleteRecurring", status |-> 404,
                            userId |-> userId, id |-> id]
            /\ UNCHANGED edit
       ELSE /\ edit' = [edit EXCEPT ![w] = [pc |-> "delete", op |-> "deleteRecurring",
                                            userId |-> userId, id |-> id,
                                            clock |-> now]]
            /\ UNCHANGED response
    /\ UNCHANGED <<now, accounts, transfers, categories, goals, goalContributions,
                   contrib, creditCards, recurrences, transactions, gen, calc, lastId>>

\* await prisma.recurrence.delete({ where: { id } }) and the answer.  The
\* foreign key transactions.recurrenceId is ON DELETE SET NULL.
RecurrenceDelete(w) ==
    /\ edit[w].pc = "delete"
    /\ LET e == edit[w]
       IN  IF RecurrenceExists(e.id)
           THEN /\ recurrences' = [recurrences EXCEPT ![e.id].deleted = TRUE]
                /\ transactions' =
                       [j \in 1..Len(transactions) |->
                           IF transactions[j].recurrenceId = e.id
                           THEN [transactions[j] EXCEPT !.recurrenceId = NONE]
                           ELSE transactions[j]]
                /\ response' = [op |-> e.op, status |-> 204, userId |-> e.userId,
                                id |-> e.id, clock |-> e.clock]
           ELSE /\ UNCHANGED <<recurrences, transactions>>
                /\ response' = [op |-> e.op, status |-> 500, userId |-> e.userId,
                                id |-> e.id, clock |-> e.clock,
                                error |-> "Record to delete does not exist"]
    /\ edit' = [edit EXCEPT ![w] = IdleGen]
    /\ UNCHANGED <<now, accounts, transfers, categories, goals, goalContributions,
                   contrib, creditCards, gen, calc, lastId>>

(***************************************************************************)
(* POST /api/recurring/generate.  The handler awaits the store four times: *)
(* findMany (the recurrences to extend), then per recurrence and date      *)
(* findFirst (is there a transaction on that day) and create, and at last  *)
(* update (nextDueDate).  Each await is one step of the worker that serves *)
(* the request; what the handler computes between two awaits belongs to    *)
(* the step before.                                                        *)
(***************************************************************************)
\* The filter without isActive: true.
NeedsExtensionPaused(recurrence, userId, maxFutureDate, today) ==
    /\ ~recurrence.deleted
    /\ recurrence.userId = userId
    /\ recurrence.nextDueDate # NONE
    /\ recurrence.nextDueDate <= maxFutureDate
    /\ (recurrence.endDate = NONE \/ recurrence.endDate >= today)

\* where: { userId, isActive: true, nextDueDate: { lte: maxFutureDate },
\*          OR: [{ endDate: null }, { endDate: { gte: new Date() } }] }
NeedsExtension(recurrence, userId, maxFutureDate, today) ==
    /\ ~recurrence.deleted
    /\ recurrence.userId = userId
    /\ recurrence.isActive
    /\ recurrence.nextDueDate # NONE
    /\ recurrence.nextDueDate <= maxFutureDate
    /\ (recurrence.endDate = NONE \/ recurrence.endDate >= today)

ActiveRecurrences(userId, maxFutureDate, today) ==
    SelectSeq(recurrences,
              LAMBDA recurrence : NeedsExtension(recurrence, userId, maxFutureDate, today))

\* if (!recurrence.amount || !recurrence.accountId || !recurrence.categoryId) continue
LacksData(recurrence) ==
    recurrence.amount = NONE \/ recurrence.accountId = NULL \/ recurrence.categoryId = NULL

\* A walk up to the 12 months whatever the recurrence's endDate.
GenerateWalkNoEnd(recurrence, maxFutureDate) ==
    WalkDates(IF recurrence.nextDueDate # NONE THEN recurrence.nextDueDate
              ELSE recurrence.startDate,
              recurrence.startDate, recurrence.interval, recurrence.intervalCount,
              maxFutureDate, <<>>)

\* The dates to create for a recurrence and the nextDueDate to store after them.
GenerateWalk(recurrence, maxFutureDate) ==
    WalkDates(IF recurrence.nextDueDate # NONE THEN recurrence.nextDueDate
              ELSE recurrence.startDate,
              recurrence.startDate, recurrence.interval, recurrence.intervalCount,
              EffectiveEndDate(recurrence.endDate, maxFutureDate), <<>>)

\* A handler that stores the day after the date its loop stopped at.
StoredDayAfter(walk) == walk.currentDate + 24

\* The value the handler stores in nextDueDate when the dates are done.
StoredNextDueDate(walk) == walk.currentDate

\* A loop that ends the batch at the first row lacking data.
EnterLoopBreak(g) ==
    IF g.queue = <<>> THEN [g EXCEPT !.pc = "respond"]
    ELSE IF LacksData(Head(g.queue)) THEN [g EXCEPT !.queue = <<>>, !.pc = "respond"]
    ELSE LET walk == GenerateWalk(Head(g.queue), g.maxFutureDate)
         IN  [g EXCEPT !.dates = walk.transactionDates,
                       !.nextDueDate = StoredNextDueDate(walk),
                       !.pc = IF walk.transactionDates = <<>> THEN "update" ELSE "findFirst"]

\* The worker's position once the head of its queue is the next recurrence to
\* look at: rows lacking data are skipped, the dates of the first other one are
\* computed; with the queue empty the handler is about to respond.
RECURSIVE EnterLoop(_)
EnterLoop(g) ==
    IF g.queue = <<>> THEN [g EXCEPT !.pc = "respond"]
    ELSE IF LacksData(Head(g.queue)) THEN EnterLoop([g EXCEPT !.queue = Tail(@)])
    ELSE LET walk == GenerateWalk(Head(g.queue), g.maxFutureDate)
         IN  [g EXCEPT !.dates = walk.transactionDates,
                       !.nextDueDate = StoredNextDueDate(walk),
                       !.pc = IF walk.transactionDates = <<>> THEN "update" ELSE "findFirst"]

\* After a date is dealt with: the next date, or the update of nextDueDate.
NextDate(g) ==
    [g EXCEPT !.dates = Tail(@),
              !.pc = IF Tail(g.dates) = <<>> THEN "update" ELSE "findFirst"]

\* res.json({ generated, transactions }) ends the request.
Settle(w, g) ==
    IF g.pc = "respond"
    THEN /\ gen' = [gen EXCEPT ![w] = IdleGen]
         /\ response' = [op |-> "generate", status |-> 200, userId |-> g.userId,
                         clock |-> g.clock, generated |-> g.generated,
                         repeat |-> g.repeat, before |-> g.before, error |-> NULL]
    ELSE /\ gen' = [gen EXCEPT ![w] = g]
         /\ UNCHANGED response

\* A store call of the handler throws: the catch answers 500 and the request
\* ends; what it wrote before stays.
Thrown(w, error) ==
    /\ gen' = [gen EXCEPT ![w] = IdleGen]
    /\ response' = [op |-> "generate", status |-> 500, userId |-> gen[w].userId,
                    clock |-> gen[w].clock, generated |-> gen[w].generated,
                    repeat |-> gen[w].repeat, before |-> gen[w].before,
                    error |-> error]

\* date: { gte: new Date(y, m, d), lt: new Date(y, m, d + 1) }
OnSameDay(stored, date) ==
    /\ stored >= NewDate(getFullYear(date), getMonth(date), getDate(date))
    /\ stored <  NewDate(getFullYear(date), getMonth(date), getDate(date) + 1)

\* A handler that creates without looking for an existing transaction.
NoExistingTransaction(recurrenceId, date) == FALSE

ExistingTransaction(recurrenceId, date) ==
    \E i \in 1..Len(transactions) :
        /\ transactions[i].recurrenceId = recurrenceId
        /\ OnSameDay(transactions[i].date, date)

\* await prisma.recurrence.findMany(...)
GenerateStart(w, userId) ==
    /\ gen[w].pc = "idle"
    /\ LET maxFutureDate == MaxFutureDate(now)
           \* the request before this one was a /generate of the same user
           \* at the same clock value
           repeat == /\ response.op = "generate"
                     /\ response.userId = userId
                     /\ response.clock = now
           g == [pc |-> "findMany", userId |-> userId, clock |-> now,
                 maxFutureDate |-> maxFutureDate,
                 queue |-> ActiveRecurrences(userId, maxFutureDate, now),
                 dates |-> <<>>, nextDueDate |-> NONE, found |-> FALSE,
                 generated |-> 0,
                 repeat |-> repeat,
                 before |-> IF repeat THEN response.generated ELSE NONE]
       IN  Settle(w, EnterLoop(g))
    /\ UNCHANGED <<now, accounts, transfers, categories, edit, goals, goalContributions, contrib, creditCards, recurrences,
                   transactions, calc, lastId>>

\* await prisma.transaction.findFirst(...)
GenerateFindFirst(w) ==
    /\ gen[w].pc = "findFirst"
    /\ LET g == gen[w]
           existingTransaction == ExistingTransaction(Head(g.queue).id, Head(g.dates))
       IN  gen' = [gen EXCEPT ![w] = IF existingTransaction THEN NextDate(g)
                                     ELSE [g EXCEPT !.pc = "create"]]
    /\ UNCHANGED <<now, accounts, transfers, categories, edit, goals, goalContributions, contrib, creditCards, recurrences,
                   transactions, response, calc, lastId>>

\* await prisma.transaction.create(...): the row names the account, the
\* category and the card of the recurrence as findMany returned it; the create
\* throws when one of them, or the recurrence, is not stored any more.
GenerateCreate(w) ==
    /\ gen[w].pc = "create"
    /\ LET g == gen[w]
           recurrence == Head(g.queue)
           row == TransactionRow(NextTransactionId,
                    [type |-> IF recurrence.type = "INCOME" THEN "INCOME" ELSE "EXPENSE",
                     amount |-> recurrence.amount, date |-> Head(g.dates),
                     purchaseDate |-> NONE,
                     description |-> <<IF recurrence.description # NULL
                                       THEN recurrence.description
                                       ELSE "Transação recorrente">>,
                     accountId |-> recurrence.accountId,
                     categoryId |-> recurrence.categoryId,
                     creditCardId |-> recurrence.creditCardId,
                     installmentNumber |-> NONE, totalInstallments |-> NONE,
                     recurrenceId |-> recurrence.id, isRecurringCharge |-> TRUE,
                     paid |-> FALSE, paidAt |-> NONE, userId |-> g.userId])
       IN  IF ~ForeignKeysHold(row)
           THEN /\ Thrown(w, "Foreign key constraint violated")
                /\ UNCHANGED <<transactions, lastId>>
           ELSE /\ transactions' = Append(transactions, row)
                /\ lastId' = Taken("transactions", 1)
                /\ gen' = [gen EXCEPT ![w] = NextDate([g EXCEPT !.generated = @ + 1])]
                /\ UNCHANGED response
    /\ UNCHANGED <<now, accounts, transfers, categories, edit, goals,
                   goalContributions, contrib, creditCards, recurrences, calc>>

\* await prisma.recurrence.update({ where: { id }, data: { nextDueDate: currentDate } })
GenerateUpdate(w) ==
    /\ gen[w].pc = "update"
    /\ LET g == gen[w]
           id == Head(g.queue).id
       IN  IF ~RecurrenceExists(id)
           THEN /\ Thrown(w, "Record to update not found")
                /\ UNCHANGED recurrences
           ELSE /\ recurrences' = [recurrences EXCEPT ![id].nextDueDate = g.nextDueDate]
                /\ Settle(w, EnterLoop([g EXCEPT !.queue = Tail(@)]))
    /\ UNCHANGED <<now, accounts, transfers, categories, edit, goals,
                   goalContributions, contrib, creditCards, transactions, calc, lastId>>

\* Time passes.
Advance ==
    /\ ClockIndex(now) < MaxAdvances
    /\ now' = ClockAt(ClockIndex(now) + 1)
    /\ UNCHANGED <<accounts, transfers, categories, edit, goals, goalContributions, contrib, creditCards, recurrences, transactions,
                   gen, response, calc, lastId>>

(***************************************************************************)
(* Specifications.                                                         *)
(***************************************************************************)
Init ==
    /\ now = NowStart
    /\ accounts = InitAccounts
    /\ transfers = <<>>
    /\ categories = InitCategories
    /\ goals = <<>>
    /\ goalContributions = <<>>
    /\ contrib = [w \in Workers |-> IdleGen]
    /\ edit = [w \in Workers |-> IdleGen]
    /\ creditCards = InitCreditCards
    /\ recurrences = <<>>
    /\ transactions = <<>>
    /\ gen = [w \in Workers |-> IdleGen]
    /\ lastId = NoIds
    /\ response = NoResponse
    /\ calc = NoCalc

\* Recurrence creation, PUT and /generate; requests overlap: a request in
\* flight does not keep other requests from being served.  Of two /generate
\* requests in flight the one that arrived while the other was running is "w2".
Next ==
    \/ \E data \in RecurringInputs : CreateRecurring("u1", data)
    \/ \E id \in 1..MaxRecurrences, data \in UpdateInputs :
           UpdateRecurring("w1", "u1", id, data)
    \/ \E id \in 1..MaxRecurrences : DeleteRecurring("w1", "u1", id)
    \/ RecurrenceUpdate("w1")
    \/ RecurrenceDelete("w1")
    \/ GenerateStart("w1", "u1")
    \/ gen["w1"].pc # "idle" /\ GenerateStart("w2", "u1")
    \/ \E w \in Workers : GenerateFindFirst(w)
    \/ \E w \in Workers : GenerateCreate(w)
    \/ \E w \in Workers : GenerateUpdate(w)
    \/ Advance

Spec == Init /\ [][Next]_vars

\* The routes that read a recurrence and then write it, two requests in
\* flight at a time ("w2" is the one that arrived while the other was
\* running), next to one /generate request.
NextEdits ==
    \/ edit["w1"].pc = "idle" /\ \E data \in RecurringInputs : CreateRecurring("u1", data)
    \/ \E w \in Workers, id \in 1..MaxRecurrences, data \in UpdateInputs :
           (w = "w2" => edit["w1"].pc # "idle") /\ UpdateRecurring(w, "u1", id, data)
    \/ \E w \in Workers, id \in 1..MaxRecurrences :
           (w = "w2" => edit["w1"].pc # "idle") /\ PauseRecurring(w, "u1", id)
    \/ \E w \in Workers, id \in 1..MaxRecurrences :
           (w = "w2" => edit["w1"].pc # "idle") /\ ResumeRecurring(w, "u1", id)
    \/ \E w \in Workers, id \in 1..MaxRecurrences :
           (w = "w2" => edit["w1"].pc # "idle") /\ DeleteRecurring(w, "u1", id)
    \/ \E w \in Workers : RecurrenceUpdate(w)
    \/ \E w \in Workers : RecurrenceDelete(w)
    \/ Advance

SpecEdits == Init /\ [][NextEdits]_vars

\* The same routes with one request served at a time.
NextSerial ==
    \/ AllIdle /\ \E data \in SerialInputs : CreateRecurring("u1", data)
    \/ AllIdle /\ \E id \in 1..MaxRecurrences, data \in SerialPatches :
                     UpdateRecurring("w1", "u1", id, data)
    \/ AllIdle /\ \E id \in 1..MaxRecurrences : PauseRecurring("w1", "u1", id)
    \/ AllIdle /\ \E id \in 1..MaxRecurrences : ResumeRecurring("w1", "u1", id)
    \/ AllIdle /\ \E id \in 1..MaxRecurrences : DeleteRecurring("w1", "u1", id)
    \/ RecurrenceUpdate("w1")
    \/ RecurrenceDelete("w1")
    \/ AllIdle /\ DeleteCreditCard("u1", "k1")
    \/ AllIdle /\ GenerateStart("w1", "u1")
    \/ GenerateFindFirst("w1")
    \/ GenerateCreate("w1")
    \/ GenerateUpdate("w1")
    \/ AllIdle /\ Advance

SpecSerial == Init /\ [][NextSerial]_vars

(***************************************************************************)
(* calculateInvoiceDueDate as a function of its arguments.                 *)
(***************************************************************************)
\* closingDay and dueDay are validated as z.number().min(1).max(31)
MaxDay == 31

\* Purchase dates, each at 03:00 UTC (midnight in the server's zone), the form
\* in which createInstallmentTransactions passes them.
PurchaseDates ==
    {DateUTC(d[1], d[2] - 1, d[3], 3) :
        d \in {<<2024, 1, 3>>, <<2024, 1, 10>>, <<2024, 1, 31>>, <<2023, 12, 31>>,
               <<2024, 2, 3>>, <<2024, 1, 26>>, <<2023, 2, 28>>, <<2024, 12, 5>>}}

InvoiceInputs ==
    {[fn |-> "input", purchaseDate |-> p, closingDay |-> c, dueDay |-> d] :
        p \in PurchaseDates, c \in 1..MaxDay, d \in 1..MaxDay}

InitInvoice ==
    /\ now = NowStart
    /\ accounts = InitAccounts
    /\ transfers = <<>>
    /\ categories = InitCategories
    /\ goals = <<>>
    /\ goalContributions = <<>>
    /\ contrib = [w \in Workers |-> IdleGen]
    /\ edit = [w \in Workers |-> IdleGen]
    /\ creditCards = InitCreditCards
    /\ recurrences = <<>>
    /\ transactions = <<>>
    /\ gen = [w \in Workers |-> IdleGen]
    /\ lastId = NoIds
    /\ response = NoResponse
    /\ calc \in InvoiceInputs

InvoiceDueDate ==
    /\ calc.fn = "input"
    /\ calc' = [fn |-> "calculateInvoiceDueDate", purchaseDate |-> calc.purchaseDate,
                closingDay |-> calc.closingDay, dueDay |-> calc.dueDay,
                result |-> calculateInvoiceDueDate(calc.purchaseDate,
                                                   calc.closingDay, calc.dueDay)]
    /\ UNCHANGED <<now, accounts, transfers, categories, edit, goals, goalContributions, contrib, creditCards, recurrences,
                   transactions, gen, lastId, response>>

NextInvoice == InvoiceDueDate

SpecInvoice == InitInvoice /\ [][NextInvoice]_vars

\* Months counted from year 0, so that the month after December of one year
\* is January of the next.
MonthIndex(t) == getFullYear(t) * 12 + getMonth(t)

\* C1: for every purchaseDate and every closingDay and dueDay in 1..31, the
\* date calculateInvoiceDueDate returns lies in the calendar month of
\* purchaseDate when the purchase's day of month is at most closingDay, and in
\* the following calendar month otherwise.
C1_InvoiceMonth ==
    calc.fn = "calculateInvoiceDueDate" =>
        MonthIndex(calc.result) =
            IF getDate(calc.purchaseDate) <= calc.closingDay
            THEN MonthIndex(calc.purchaseDate)
            ELSE MonthIndex(calc.purchaseDate) + 1

\* The part of C1 that the code does satisfy: the rule for every dueDay that
\* exists in the invoice month, and the four dated examples.
C1_InvoiceMonthWhenDueDayExists ==
    calc.fn = "calculateInvoiceDueDate" =>
        LET target == IF getDate(calc.purchaseDate) <= calc.closingDay
                      THEN MonthIndex(calc.purchaseDate)
                      ELSE MonthIndex(calc.purchaseDate) + 1
        IN  /\ calc.dueDay <= DaysInMonth(target \div 12, target % 12) =>
                 /\ MonthIndex(calc.result) = target
                 /\ getDate(calc.result) = calc.dueDay
            /\ (calc.closingDay = 5 /\ calc.dueDay = 10) =>
                 /\ calc.purchaseDate = DateUTC(2024, 0, 3, 3)
                      => calc.result = NewDate(2024, 0, 10)
                 /\ calc.purchaseDate = DateUTC(2024, 0, 10, 3)
                      => calc.result = NewDate(2024, 1, 10)
                 /\ calc.purchaseDate = DateUTC(2024, 0, 31, 3)
                      => calc.result = NewDate(2024, 1, 10)
                 /\ calc.purchaseDate = DateUTC(2023, 11, 31, 3)
                      => calc.result = NewDate(2024, 0, 10)

(***************************************************************************)
(* The recurrence engine.                                                  *)
(***************************************************************************)
\* The calendar day, in the server's zone, on which a stored date falls.
LocalDay(t) == (t - BrazilOffsetHours) \div 24

\* C2: whatever the interleaving of recurrence creation and /generate requests
\* of a user, two overlapping /generate requests included, no two transactions
\* of one recurrence have ledger dates on the same calendar day.
C2_OneTransactionPerRecurrenceDay ==
    \A i, j \in 1..Len(transactions) :
        (/\ i # j
         /\ transactions[i].recurrenceId # NONE
         /\ transactions[i].recurrenceId = transactions[j].recurrenceId)
        => LocalDay(transactions[i].date) # LocalDay(transactions[j].date)

\* A state C2 excludes, reached without any PUT: the monthly recurrence is as
\* POST /api/recurring stored it (a PUT of UpdateInputs changes its interval or
\* its startDate for good), and two of its transactions share a day.
C2_DuplicateWithoutUpdate ==
    \E i, j \in 1..Len(transactions) :
        /\ i < j
        /\ transactions[i].recurrenceId = 1
        /\ transactions[j].recurrenceId = 1
        /\ LocalDay(transactions[i].date) = LocalDay(transactions[j].date)
        /\ recurrences[1].interval = "MONTH"
        /\ recurrences[1].intervalCount = 1
        /\ recurrences[1].startDate = parseDateToBrazilTimezone(<<2024, 1, 31>>)

\* A /generate request is a repeat when the request served just before it was
\* a /generate of the same user at the same clock value (gen[w].repeat, set
\* when the request starts; gen[w].before is the number of transactions that
\* earlier request created).
RepeatRunning == gen["w1"].pc # "idle" /\ gen["w1"].repeat

\* C3: of two /generate requests served in succession at the same clock value,
\* the second creates no transaction and leaves every recurrence's
\* nextDueDate as the first left it.
C3_GenerateIdempotent ==
    /\ [][RepeatRunning =>
            /\ transactions' = transactions
            /\ Len(recurrences') = Len(recurrences)
            /\ \A id \in 1..Len(recurrences) :
                   recurrences'[id].nextDueDate = recurrences[id].nextDueDate]_vars
    /\ []((response.op = "generate" /\ response.repeat) => response.generated = 0)

\* A second run has ended, after a first run that created transactions.
C3_SecondRunAfterCreatingRun ==
    /\ response.op = "generate"
    /\ response.repeat
    /\ response.before >= 1
    /\ response.clock = now
    /\ AllIdle

\* The transactions of a recurrence, in the order they were stored.
TransactionsOf(recurrenceId) ==
    SelectSeq(transactions, LAMBDA row : row.recurrenceId = recurrenceId)

\* The occurrence after date d of a recurrence.
NextOccurrence(recurrence, d) ==
    calculateNextDueDate(recurrence.startDate, recurrence.interval,
                         recurrence.intervalCount, d)

\* min(endDate, clock + 12 months)
HorizonEnd(recurrence, clock) ==
    LET horizon == MaxFutureDate(clock)
    IN  IF recurrence.endDate = NONE \/ horizon <= recurrence.endDate
        THEN horizon ELSE recurrence.endDate

\* C4: once POST /api/recurring has answered, the transactions of the new
\* recurrence are one per occurrence startDate, next(startDate), ... up to
\* min(endDate, now + 12 months) and no other, each with isRecurringCharge
\* true, paid false and the new recurrence's id, and the recurrence's
\* nextDueDate is the first occurrence after min(endDate, now + 12 months).
C4_CreateStoresOccurrences ==
    (response.op = "createRecurring" /\ response.status = 201 /\ AllIdle) =>
        LET recurrence == recurrences[response.id]
            rows       == TransactionsOf(response.id)
            n          == Len(rows)
            limit      == HorizonEnd(recurrence, response.clock)
        IN  /\ n = response.generatedTransactions
            /\ n >= 1 => rows[1].date = recurrence.startDate
            /\ \A k \in 1..n :
                   /\ rows[k].date <= limit
                   /\ rows[k].isRecurringCharge
                   /\ ~rows[k].paid
                   /\ k < n => rows[k + 1].date = NextOccurrence(recurrence, rows[k].date)
            /\ recurrence.nextDueDate > limit
            /\ recurrence.nextDueDate =
                   IF n = 0 THEN recurrence.startDate
                   ELSE NextOccurrence(recurrence, rows[n].date)

\* A recurrence has just been created whose endDate, not the 12 months, ends
\* its transactions, and it has two of them.
C4_CreatedUpToEndDate ==
    /\ response.op = "createRecurring"
    /\ response.status = 201
    /\ AllIdle
    /\ recurrences[response.id].endDate # NONE
    /\ recurrences[response.id].endDate < MaxFutureDate(response.clock)
    /\ Len(TransactionsOf(response.id)) = 2

\* The step is worker w's recurrence.update of recurrence id.
StoresNextDueDate(w, id) ==
    /\ gen[w].pc = "update"
    /\ gen'[w] # gen[w]
    /\ RecurrenceExists(id)
    /\ Head(gen[w].queue).id = id

\* C5: in every reachable state a periodic recurrence's nextDueDate is at
\* least its startDate, and no /generate request stores a nextDueDate lower
\* than the one the recurrence had when the request read it.
C5_NextDueDateBounds ==
    /\ [](\A id \in 1..Len(recurrences) :
              (RecurrenceExists(id) /\ recurrences[id].nextDueDate # NONE)
              => recurrences[id].nextDueDate >= recurrences[id].startDate)
    /\ [][\A w \in Workers, id \in 1..Len(recurrences) :
              StoresNextDueDate(w, id)
              => recurrences'[id].nextDueDate >= Head(gen[w].queue).nextDueDate]_vars

\* The state part of C5 alone.
C5_NextDueDateNotBeforeStart ==
    \A id \in 1..Len(recurrences) :
        (RecurrenceExists(id) /\ recurrences[id].nextDueDate # NONE)
        => recurrences[id].nextDueDate >= recurrences[id].startDate

(***************************************************************************)
(* src/src/services/transactionService.ts behind the routes                *)
(* POST /api/transactions and POST /api/transactions/installments.         *)
(* Amounts are in cents (column amount is DECIMAL(15,2)); a description is *)
(* <<text>>, or <<text, i, N>> for the string `${text} ${i}/${N}`.         *)
(***************************************************************************)
\* The comparison with the UTC fields of today on both sides.
isTodayUTC(date) ==
    /\ getUTCFullYear(date) = getUTCFullYear(now)
    /\ getUTCMonth(date) = getUTCMonth(now)
    /\ getUTCDate(date) = getUTCDate(now)

\* date.getUTC*() === today.get*()
isToday(date) ==
    /\ getUTCFullYear(date) = getFullYear(now)
    /\ getUTCMonth(date) = getMonth(now)
    /\ getUTCDate(date) = getDate(now)

\* The handlers answer 500 with the message of whatever was thrown; written
\* is the number of rows the request had stored by then.
Failure(op, userId, data, error) ==
    [op |-> op, status |-> 500, userId |-> userId, request |-> data,
     error |-> error, written |-> 0]

\* The data createTransaction hands to prisma.transaction.create; creditCard is
\* the row findUnique returned, read only when the request names a card.  The
\* id is given when the row is stored.  recurrenceId is the field
\* createRecurringTransactions adds to the data, absent from a request body.
CreateData(userId, data, creditCard) ==
    LET date         == normalizeDate(ParseDate(data.date))
        purchaseDate == IF data.purchaseDate # NoYmd
                        THEN normalizeDate(ParseDate(data.purchaseDate)) ELSE NONE
        hasCard      == Truthy(data.creditCardId)
        actualPurchaseDate == IF purchaseDate # NONE THEN purchaseDate ELSE date
        transactionDate ==
            IF hasCard
            THEN normalizeDate(calculateInvoiceDueDate(actualPurchaseDate,
                                   creditCard.closingDay, creditCard.dueDay))
            ELSE date
        shouldAutoPay == ~hasCard /\ data.type = "EXPENSE" /\ isToday(transactionDate)
    IN  TransactionRow(0,
                 [type |-> data.type, amount |-> data.amount,
                  date |-> transactionDate,
                  purchaseDate |-> IF hasCard THEN actualPurchaseDate ELSE purchaseDate,
                  description |-> <<data.description>>,
                  accountId |-> data.accountId, categoryId |-> data.categoryId,
                  creditCardId |-> IF hasCard THEN data.creditCardId ELSE NULL,
                  installmentNumber |-> data.installmentNumber,
                  totalInstallments |-> data.totalInstallments,
                  recurrenceId |-> IF "recurrenceId" \in DOMAIN data
                                   THEN data.recurrenceId ELSE NONE,
                  isRecurringCharge |-> data.isRecurringCharge,
                  paid |-> shouldAutoPay,
                  paidAt |-> IF shouldAutoPay THEN now ELSE NONE,
                  userId |-> userId])

\* A create operation of the service that awaits prisma.transaction.create:
\* request is the body, row the data of the create, written the number of
\* rows the operation has stored before.
AwaitCreate(op, userId, request, row, written) ==
    [pc |-> "create", op |-> op, userId |-> userId, request |-> request,
     row |-> row, written |-> written]

\* return await prisma.transaction.create({ data }); the route answers 201
\* with the row, or 500 when the create throws.
StoreTransaction(e) ==
    IF ~ForeignKeysHold(e.row)
    THEN /\ response' = [Failure(e.op, e.userId, e.request,
                                 "Foreign key constraint violated")
                             EXCEPT !.written = e.written]
         /\ UNCHANGED <<transactions, lastId>>
    ELSE /\ transactions' = Append(transactions, [e.row EXCEPT !.id = NextTransactionId])
         /\ lastId' = Taken("transactions", 1)
         /\ response' = [op |-> e.op, status |-> 201,
                         userId |-> e.userId, request |-> e.request,
                         error |-> NULL, id |-> NextTransactionId,
                         recurrenceId |-> e.row.recurrenceId,
                         written |-> e.written + 1]

\* TransactionService.createTransaction behind POST /api/transactions.  A
\* request without creditCardId awaits the store once, for the create; a
\* request with one first awaits creditCard.findUnique, and its create is
\* the step TransactionCreate.
CreateTransaction(w, userId, data) ==
    /\ edit[w].pc = "idle"
    /\ IF ~Truthy(data.creditCardId)
       THEN /\ StoreTransaction(AwaitCreate("createTransaction", userId, data,
                                            CreateData(userId, data, NULL), 0))
            /\ UNCHANGED edit
       ELSE IF data.creditCardId \notin DOMAIN creditCards
       THEN /\ response' = Failure("createTransaction", userId, data,
                                   "Credit card not found")
            /\ UNCHANGED <<transactions, edit, lastId>>
       ELSE /\ edit' = [edit EXCEPT ![w] =
                          AwaitCreate("createTransaction", userId, data,
                                      CreateData(userId, data,
                                                 creditCards[data.creditCardId]), 0)]
            /\ UNCHANGED <<transactions, response, lastId>>
    /\ UNCHANGED <<now, accounts, transfers, categories, goals, goalContributions,
                   contrib, creditCards, recurrences, gen, calc>>

\* await prisma.transaction.create(...) of createTransaction, called by the
\* route or by createRecurringTransactions, once it has its data.
TransactionCreate(w) ==
    /\ edit[w].pc = "create"
    /\ StoreTransaction(edit[w])
    /\ edit' = [edit EXCEPT ![w] = IdleGen]
    /\ UNCHANGED <<now, accounts, transfers, categories, goals, goalContributions,
                   contrib, creditCards, recurrences, gen, calc>>

\* An amount split in equal parts, rounded to the cent.
DividedAmount(amount, totalInstallments) ==
    (2 * amount + totalInstallments) \div (2 * totalInstallments)

\* const installmentAmount = data.amount
InstallmentAmount(amount, totalInstallments) == amount

\* new Date(Date.UTC(newYear, newMonth, originalDay, 3, 0, 0, 0))
InstallmentDate(purchaseDate, i) ==
    LET monthsToAdd   == i - 1
        originalDay   == getUTCDate(purchaseDate)
        originalMonth == getUTCMonth(purchaseDate)
        originalYear  == getUTCFullYear(purchaseDate)
        totalMonths   == originalMonth + monthsToAdd
        newYear       == originalYear + (totalMonths \div 12)
        newMonth      == totalMonths % 12
    IN  DateUTC(newYear, newMonth, originalDay, 3)

\* A description that is stored as it was given.
PlainDescription(description, hasCard, i, totalInstallments) == <<description>>

\* creditCard ? `${data.description} ${i}/${totalInstallments}` : data.description
InstallmentDescription(description, hasCard, i, totalInstallments) ==
    IF hasCard THEN <<description, i, totalInstallments>> ELSE <<description>>

\* The row prisma.recurrence.create stores for a batch of installments.
InstallmentRecurrence(id, purchaseDate, totalInstallments) ==
    [id |-> id, type |-> "INSTALLMENT", interval |-> "MONTH", intervalCount |-> 1,
     startDate |-> purchaseDate, endDate |-> NONE,
     totalInstallments |-> totalInstallments, nextDueDate |-> NONE,
     description |-> NULL, amount |-> NONE, isActive |-> TRUE,
     accountId |-> NULL, categoryId |-> NULL, creditCardId |-> NULL,
     userId |-> NULL, deleted |-> FALSE]

\* The card of a request that names none.
NoCreditCard == [closingDay |-> NONE, dueDay |-> NONE]

\* The data of the create of installment i; e is the request in flight: its
\* body, the purchase date, the card findUnique returned and the recurrence.
InstallmentData(e, i) ==
    LET data == e.request.data
        totalInstallments == e.request.totalInstallments
        hasCard == Truthy(data.creditCardId)
        installmentDate == InstallmentDate(e.purchaseDate, i)
        transactionDate ==
            IF hasCard
            THEN normalizeDate(calculateInvoiceDueDate(installmentDate,
                                   e.creditCard.closingDay, e.creditCard.dueDay))
            ELSE installmentDate
    IN  TransactionRow(NextTransactionId,
          [type |-> data.type,
           amount |-> InstallmentAmount(data.amount, totalInstallments),
           date |-> transactionDate,
           purchaseDate |-> IF hasCard THEN installmentDate ELSE NONE,
           description |-> InstallmentDescription(data.description, hasCard,
                                                  i, totalInstallments),
           accountId |-> data.accountId, categoryId |-> data.categoryId,
           creditCardId |-> IF hasCard THEN data.creditCardId ELSE NULL,
           installmentNumber |-> i, totalInstallments |-> totalInstallments,
           recurrenceId |-> e.recurrenceId,
           isRecurringCharge |-> data.isRecurringCharge,
           paid |-> FALSE, paidAt |-> NONE, userId |-> e.userId])

\* const recurrence = await prisma.recurrence.create(...) of a batch: the row
\* is stored and the loop comes to the create of the first installment.
StoreInstallmentRecurrence(w, e) ==
    LET id == Len(recurrences) + 1
    IN  /\ recurrences' = Append(recurrences,
                              InstallmentRecurrence(id, e.purchaseDate,
                                                    e.request.totalInstallments))
        /\ edit' = [edit EXCEPT ![w] = [e EXCEPT !.pc = "installment",
                                                 !.recurrenceId = id,
                                                 !.i = 1,
                                                 !.written = 1]]

\* TransactionService.createInstallmentTransactions behind
\* POST /api/transactions/installments, up to its first write.  The handler
\* awaits the store once per row: creditCard.findUnique when the request
\* names a card, recurrence.create, and transaction.create for every
\* installment; nothing holds the writes together.
CreateInstallments(w, userId, data, totalInstallments) ==
    LET purchaseDate == normalizeDate(ParseDate(IF data.purchaseDate # NoYmd
                                                THEN data.purchaseDate ELSE data.date))
        hasCard   == Truthy(data.creditCardId)
        cardFound == data.creditCardId \in DOMAIN creditCards
        request   == [data |-> data, totalInstallments |-> totalInstallments]
        e == [pc |-> "recurrence.create", op |-> "createInstallments",
              userId |-> userId, request |-> request,
              purchaseDate |-> purchaseDate,
              creditCard |-> IF hasCard /\ cardFound
                             THEN [closingDay |-> creditCards[data.creditCardId].closingDay,
                                   dueDay |-> creditCards[data.creditCardId].dueDay]
                             ELSE NoCreditCard,
              recurrenceId |-> NONE, i |-> 0, written |-> 0]
    IN  /\ edit[w].pc = "idle"
        /\ IF hasCard /\ ~cardFound
           THEN /\ response' = Failure("createInstallments", userId, request,
                                       "Credit card not found")
                /\ UNCHANGED <<recurrences, edit>>
           ELSE IF hasCard
           THEN /\ edit' = [edit EXCEPT ![w] = e]
                /\ UNCHANGED <<recurrences, response>>
           ELSE /\ StoreInstallmentRecurrence(w, e)
                /\ UNCHANGED response
        /\ UNCHANGED <<now, accounts, transfers, categories, goals, goalContributions,
                       contrib, creditCards, transactions, gen, calc, lastId>>

\* await prisma.recurrence.create(...) of a batch charged to a card.
InstallmentRecurrenceCreate(w) ==
    /\ edit[w].pc = "recurrence.create"
    /\ edit[w].op = "createInstallments"
    /\ StoreInstallmentRecurrence(w, edit[w])
    /\ UNCHANGED <<now, accounts, transfers, categories, goals, goalContributions,
                   contrib, creditCards, transactions, gen, response, calc, lastId>>

\* await prisma.transaction.create(...) of installment i.  A create the
\* database refuses ends the request with 500 and leaves what was written
\* before it: the recurrence and the installments 1..i-1.  After the last
\* installment the route answers 201 with the rows.
InstallmentCreate(w) ==
    /\ edit[w].pc = "installment"
    /\ LET e   == edit[w]
           row == InstallmentData(e, e.i)
       IN  IF ~ForeignKeysHold(row)
           THEN /\ response' = [Failure(e.op, e.userId, e.request,
                                        "Foreign key constraint violated")
                                    EXCEPT !.written = e.written]
                /\ edit' = [edit EXCEPT ![w] = IdleGen]
                /\ UNCHANGED <<transactions, lastId>>
           ELSE /\ transactions' = Append(transactions, row)
                /\ lastId' = Taken("transactions", 1)
                /\ IF e.i < e.request.totalInstallments
                   THEN /\ edit' = [edit EXCEPT ![w].i = @ + 1, ![w].written = @ + 1]
                        /\ UNCHANGED response
                   ELSE /\ edit' = [edit EXCEPT ![w] = IdleGen]
                        /\ response' = [op |-> e.op, status |-> 201,
                                        userId |-> e.userId, request |-> e.request,
                                        error |-> NULL, recurrenceId |-> e.recurrenceId,
                                        count |-> e.i, written |-> e.written + 1]
    /\ UNCHANGED <<now, accounts, transfers, categories, goals, goalContributions,
                   contrib, creditCards, recurrences, gen, calc>>

(***************************************************************************)
(* The ledger routes, one request at a time, served while the ledger has   *)
(* fewer than MaxLedger rows.                                              *)
(***************************************************************************)
MaxLedger == 2
MaxInstallments == 3

TransactionBase ==
    [type |-> "EXPENSE", amount |-> 12000, date |-> <<2024, 1, 15>>,
     purchaseDate |-> NoYmd, description |-> "Mercado",
     accountId |-> "a1", categoryId |-> "c1", creditCardId |-> NULL,
     installmentNumber |-> NONE, totalInstallments |-> NONE,
     isRecurringCharge |-> FALSE]

\* Request bodies of POST /api/transactions that pass createTransactionSchema,
\* sent by u1: accounts, categories and cards of u1, of u2, and unknown ones.
TransactionInputs ==
    {TransactionBase,
     [TransactionBase EXCEPT !.type = "INCOME"],
     [TransactionBase EXCEPT !.date = <<2024, 1, 31>>],
     [TransactionBase EXCEPT !.creditCardId = "k1", !.date = <<2024, 1, 3>>],
     [TransactionBase EXCEPT !.creditCardId = "k1", !.date = <<2024, 1, 20>>,
                             !.purchaseDate = <<2024, 1, 10>>],
     [TransactionBase EXCEPT !.creditCardId = "k2"],
     [TransactionBase EXCEPT !.creditCardId = "k9"],
     [TransactionBase EXCEPT !.accountId = "a2"],
     [TransactionBase EXCEPT !.accountId = "a9"],
     [TransactionBase EXCEPT !.categoryId = "c2"],
     [TransactionBase EXCEPT !.categoryId = "c9"],
     [TransactionBase EXCEPT !.accountId = "a9", !.creditCardId = "k9"]}

InstallmentBase ==
    [type |-> "EXPENSE", amount |-> 120000, date |-> <<2024, 1, 15>>,
     purchaseDate |-> NoYmd, description |-> "Notebook",
     accountId |-> "a1", categoryId |-> "c1", creditCardId |-> NULL,
     isRecurringCharge |-> FALSE]

\* Request bodies of POST /api/transactions/installments, without
\* totalInstallments.
InstallmentInputs ==
    {[InstallmentBase EXCEPT !.amount = a, !.date = d, !.creditCardId = k] :
        a \in {120000, 100000},
        d \in {<<2024, 1, 15>>, <<2024, 1, 31>>, <<2023, 12, 31>>},
        k \in {NULL, "k1"}}
    \cup {[InstallmentBase EXCEPT !.creditCardId = "k9"],
          [InstallmentBase EXCEPT !.accountId = "a9"],
          [InstallmentBase EXCEPT !.date = <<2024, 1, 3>>, !.creditCardId = "k1"],
          [InstallmentBase EXCEPT !.purchaseDate = <<2023, 11, 30>>,
                                  !.creditCardId = "k1"],
          [InstallmentBase EXCEPT !.isRecurringCharge = TRUE, !.creditCardId = "k1"]}

NextLedger ==
    \/ AllIdle /\ \E data \in TransactionInputs :
           Len(transactions) < MaxLedger /\ CreateTransaction("w1", "u1", data)
    \/ AllIdle /\ \E data \in InstallmentInputs, totalInstallments \in 2..MaxInstallments :
           /\ Len(transactions) < MaxLedger
           /\ Len(recurrences) < MaxRecurrences
           /\ CreateInstallments("w1", "u1", data, totalInstallments)
    \/ TransactionCreate("w1")
    \/ InstallmentRecurrenceCreate("w1")
    \/ InstallmentCreate("w1")

SpecLedger == Init /\ [][NextLedger]_vars

(***************************************************************************)
(* Installments.                                                           *)
(***************************************************************************)
\* POST /api/transactions/installments has just answered 201.
InstallmentsCreated == response.op = "createInstallments" /\ response.status = 201

\* The rows of the batch just created, in the order they were stored.
Batch == TransactionsOf(response.recurrenceId)

RECURSIVE SumAmounts(_)
SumAmounts(rows) ==
    IF rows = <<>> THEN 0 ELSE Head(rows).amount + SumAmounts(Tail(rows))

\* C6: createInstallmentTransactions with totalInstallments = N >= 2 creates
\* exactly N transactions, numbered 1..N in order, each with totalInstallments
\* = N and the amount the caller supplied, so that the amounts add up to N
\* times that amount.
C6_InstallmentRows ==
    InstallmentsCreated =>
        LET N == response.request.totalInstallments
        IN  /\ N >= 2
            /\ Len(Batch) = N
            /\ response.count = N
            /\ \A i \in 1..Len(Batch) :
                   /\ Batch[i].installmentNumber = i
                   /\ Batch[i].totalInstallments = N
                   /\ Batch[i].amount = response.request.data.amount
            /\ SumAmounts(Batch) = N * response.request.data.amount

\* A batch of three installments of 1000.00 has been created.
C6_ThreeInstallmentsCreated ==
    /\ InstallmentsCreated
    /\ response.request.totalInstallments = 3
    /\ response.request.data.amount = 100000
    /\ Len(Batch) = 3

\* C7: createInstallmentTransactions takes the supplied amount as the total of
\* the purchase: every installment but the last gets total / N rounded to the
\* cent, the last one takes the rounding difference, and the installments add
\* up to the total (1200.00 in 3: 400.00 each; 1000.00 in 3: 333.33, 333.33,
\* 333.34).
C7_AmountIsDivided ==
    InstallmentsCreated =>
        LET N     == response.request.totalInstallments
            total == response.request.data.amount
            share == DividedAmount(total, N)
        IN  /\ \A i \in 1..Len(Batch) :
                   Batch[i].amount = IF i < N THEN share ELSE total - (N - 1) * share
            /\ SumAmounts(Batch) = total

\* The calendar date of an installment: what the row keeps of the date the
\* loop computed for it (purchaseDate with a card, date without).
CalendarDate(row) ==
    UTCCivil(IF row.creditCardId # NULL THEN row.purchaseDate ELSE row.date)

\* The purchase date of a request: purchaseDate, or date when it is left out.
RequestedPurchaseDate(data) ==
    IF data.purchaseDate # NoYmd THEN data.purchaseDate ELSE data.date

\* C8: the calendar date of installment i is the purchase date moved on by
\* exactly i - 1 months, on the purchase date's day of the month, December
\* carrying into the next year.
C8_SameDayEachMonth ==
    InstallmentsCreated =>
        LET p == RequestedPurchaseDate(response.request.data)
        IN  \A i \in 1..Len(Batch) :
                LET months == p[1] * 12 + (p[2] - 1) + (i - 1)
                IN  CalendarDate(Batch[i]) =
                        [year |-> months \div 12, month |-> months % 12, date |-> p[3]]

\* C9: with a card, each installment's ledger date is the invoice date of the
\* installment's calendar date under the card's closingDay and dueDay, its
\* purchaseDate is that calendar date and its description ends in "i/N";
\* without a card the ledger date is the calendar date, no purchaseDate is
\* stored and the description is the one given.  A purchase on 2024-01-15 in
\* 3 installments on a card closing on the 5th and due on the 10th has ledger
\* dates 2024-02-10, 2024-03-10, 2024-04-10 and suffixes 1/3, 2/3, 3/3.
C9_LedgerDatePurchaseDateDescription ==
    InstallmentsCreated =>
        LET data == response.request.data
            N    == response.request.totalInstallments
            purchaseDate == normalizeDate(ParseDate(RequestedPurchaseDate(data)))
        IN  /\ \A i \in 1..Len(Batch) :
                   LET installmentDate == InstallmentDate(purchaseDate, i)
                       card == creditCards[data.creditCardId]
                   IN  IF data.creditCardId # NULL
                       THEN /\ Batch[i].date =
                                   normalizeDate(calculateInvoiceDueDate(
                                       installmentDate, card.closingDay, card.dueDay))
                            /\ Batch[i].purchaseDate = installmentDate
                            /\ Batch[i].description = <<data.description, i, N>>
                       ELSE /\ Batch[i].date = installmentDate
                            /\ Batch[i].purchaseDate = NONE
                            /\ Batch[i].description = <<data.description>>
            /\ (/\ RequestedPurchaseDate(data) = <<2024, 1, 15>>
                /\ data.creditCardId = "k1"
                /\ N = 3)
               => \A i \in 1..Len(Batch) :
                      /\ UTCCivil(Batch[i].date) = [year |-> 2024, month |-> i, date |-> 10]
                      /\ Batch[i].description = <<data.description, i, 3>>

\* The batch of the example has been created: 2024-01-15, 3 installments, on
\* the card that closes on the 5th and is due on the 10th.
C9_ExampleBatchCreated ==
    /\ InstallmentsCreated
    /\ RequestedPurchaseDate(response.request.data) = <<2024, 1, 15>>
    /\ response.request.data.creditCardId = "k1"
    /\ creditCards["k1"].closingDay = 5
    /\ creditCards["k1"].dueDay = 10
    /\ response.request.totalInstallments = 3
    /\ Len(Batch) = 3

(***************************************************************************)
(* Transaction creation.                                                   *)
(***************************************************************************)
\* The account, the category or the card of a request does not exist or is
\* another user's.
ForeignReference(userId, data) ==
    \/ data.accountId \notin DOMAIN accounts
    \/ data.categoryId \notin DOMAIN categories
    \/ data.creditCardId # NULL /\ data.creditCardId \notin DOMAIN creditCards
    \/ data.accountId \in DOMAIN accounts /\ accounts[data.accountId].userId # userId
    \/ data.categoryId \in DOMAIN categories
         /\ categories[data.categoryId].userId # userId
    \/ data.creditCardId \in DOMAIN creditCards
         /\ creditCards[data.creditCardId].userId # userId

NotFoundErrors == {"Account not found", "Category not found", "Credit card not found"}

\* C10: creating a transaction whose accountId, categoryId or creditCardId
\* does not exist or belongs to another user fails with a not-found error and
\* writes nothing.
C10_ForeignReferenceRejected ==
    [][(/\ response'.op = "createTransaction"
        /\ response' # response
        /\ ForeignReference(response'.userId, response'.request))
       => /\ transactions' = transactions
          /\ response'.status # 201
          /\ response'.error \in NotFoundErrors]_vars

\* The lookup by id alone, without the owner.
AnyTransaction(id, userId) ==
    {i \in 1..Len(transactions) : transactions[i].id = id}

(***************************************************************************)
(* src/src/services/transactionService.ts: update, delete, paid status;    *)
(* src/src/routes/creditCards.ts: DELETE /:id.                             *)
(***************************************************************************)
\* The positions of the rows that prisma.transaction.findFirst({ id, userId })
\* matches.
OwnedTransaction(id, userId) ==
    {i \in 1..Len(transactions) :
        transactions[i].id = id /\ transactions[i].userId = userId}

\* The positions of the rows that prisma.transaction.findUnique({ id }) matches.
TransactionById(id) == {i \in 1..Len(transactions) : transactions[i].id = id}

\* new Date(str) of an optional field
ParseGiven(ymd) == IF ymd = NoYmd THEN NONE ELSE ParseDate(ymd)

\* a || b || c || d over nullable dates
FirstGiven(dates) ==
    LET given == SelectSeq(dates, LAMBDA d : d # NONE)
    IN  IF given = <<>> THEN NONE ELSE Head(given)

\* A flag of a request body that may be left out: <<>> or <<TRUE>>, <<FALSE>>.
NoFlag == <<>>

\* The answer of a transaction route that names a stored row.
TransactionAnswer(op, status, error, userId, id) ==
    [op |-> op, status |-> status, error |-> error, userId |-> userId, id |-> id]

\* The data of prisma.transaction.update({ data: { ...data } }): the fields
\* the body holds; date is data.date, replaced by the invoice date when the
\* card was found.
UpdateTransactionData(data, date) ==
    Given(data.type # NULL, "type", data.type)
    @@ Given(data.amount # NONE, "amount", data.amount)
    @@ Given(date # NONE, "date", date)
    @@ Given(data.purchaseDate # NoYmd, "purchaseDate", ParseGiven(data.purchaseDate))
    @@ Given(data.description # NULL, "description", <<data.description>>)
    @@ Given(data.accountId # NULL, "accountId", data.accountId)
    @@ Given(data.categoryId # NULL, "categoryId", data.categoryId)
    @@ Given(data.creditCardId # NULL, "creditCardId", data.creditCardId)
    @@ Given(data.installmentNumber # NONE, "installmentNumber", data.installmentNumber)
    @@ Given(data.totalInstallments # NONE, "totalInstallments", data.totalInstallments)
    @@ Given(data.isRecurringCharge # NoFlag, "isRecurringCharge",
             data.isRecurringCharge = <<TRUE>>)

\* A handler that awaits prisma.transaction.update({ where: { id }, data }).
AwaitTransactionUpdate(op, userId, id, request, data) ==
    [pc |-> "transaction.update", op |-> op, userId |-> userId, id |-> id,
     request |-> request, data |-> data]

\* TransactionService.updateTransaction behind PUT /api/transactions/:id, up
\* to the await that follows transaction.findFirst.  With a date, a
\* purchaseDate or a card in the patch the card is looked up by
\* `data.creditCardId || existingTransaction.creditCardId`; when both are
\* absent the lookup is refused by the client library and the call throws.
UpdateTransaction(w, userId, id, data) ==
    LET found    == OwnedTransaction(id, userId)
        existingTransaction == transactions[CHOOSE j \in found : TRUE]
        recalculates == \/ Truthy(data.creditCardId)
                        \/ data.date # NoYmd
                        \/ data.purchaseDate # NoYmd
        cardId   == IF Truthy(data.creditCardId) THEN data.creditCardId
                    ELSE existingTransaction.creditCardId
    IN  /\ edit[w].pc = "idle"
        /\ IF found = {}
           THEN /\ response' = TransactionAnswer("updateTransaction", 500,
                                                 "Transaction not found", userId, id)
                /\ UNCHANGED edit
           ELSE IF recalculates /\ cardId = NULL
           THEN /\ response' = TransactionAnswer("updateTransaction", 500,
                                                 "Argument id must not be null",
                                                 userId, id)
                /\ UNCHANGED edit
           ELSE IF recalculates
           THEN /\ edit' = [edit EXCEPT ![w] =
                              [pc |-> "creditCard.findUnique",
                               op |-> "updateTransaction", userId |-> userId,
                               id |-> id, request |-> data, cardId |-> cardId,
                               purchaseDate |->
                                   FirstGiven(<<ParseGiven(data.purchaseDate),
                                                existingTransaction.purchaseDate,
                                                ParseGiven(data.date),
                                                existingTransaction.date>>)]]
                /\ UNCHANGED response
           ELSE /\ edit' = [edit EXCEPT ![w] =
                              AwaitTransactionUpdate("updateTransaction", userId, id,
                                  data, UpdateTransactionData(data, NONE))]
                /\ UNCHANGED response
        /\ UNCHANGED <<now, accounts, transfers, categories, goals, goalContributions,
                       contrib, creditCards, recurrences, transactions, gen, calc,
                       lastId>>

\* const creditCard = await prisma.creditCard.findUnique(...) of
\* updateTransaction: with the card found data.date becomes the invoice date
\* of the purchase date, without it data.date stays what the body gave.
TransactionFindUnique(w) ==
    /\ edit[w].pc = "creditCard.findUnique"
    /\ LET e    == edit[w]
           date == IF e.cardId \in DOMAIN creditCards
                   THEN calculateInvoiceDueDate(e.purchaseDate,
                                                creditCards[e.cardId].closingDay,
                                                creditCards[e.cardId].dueDay)
                   ELSE ParseGiven(e.request.date)
       IN  edit' = [edit EXCEPT ![w] =
                      AwaitTransactionUpdate(e.op, e.userId, e.id, e.request,
                                             UpdateTransactionData(e.request, date))]
    /\ UNCHANGED <<now, accounts, transfers, categories, goals, goalContributions,
                   contrib, creditCards, recurrences, transactions, gen, response,
                   calc, lastId>>

\* await prisma.transaction.update({ where: { id }, data }) of
\* updateTransaction and of updateTransactionPaidStatus: the row as it is
\* stored now takes the fields of data.  The update throws when the row is
\* gone or when a row it names is not stored; the catch answers 500.
TransactionUpdate(w) ==
    /\ edit[w].pc = "transaction.update"
    /\ LET e       == edit[w]
           found   == TransactionById(e.id)
           i       == CHOOSE j \in found : TRUE
           updated == ApplyUpdate(transactions[i], e.data)
       IN  IF found = {}
           THEN /\ response' = TransactionAnswer(e.op, 500,
                                   "Record to update not found", e.userId, e.id)
                /\ UNCHANGED transactions
           ELSE IF ~ForeignKeysHold(updated)
           THEN /\ response' = TransactionAnswer(e.op, 500,
                                   "Foreign key constraint violated", e.userId, e.id)
                /\ UNCHANGED transactions
           ELSE /\ transactions' = [transactions EXCEPT ![i] = updated]
                /\ response' = TransactionAnswer(e.op, 200, NULL, e.userId, e.id)
    /\ edit' = [edit EXCEPT ![w] = IdleGen]
    /\ UNCHANGED <<now, accounts, transfers, categories, goals, goalContributions,
                   contrib, creditCards, recurrences, gen, calc, lastId>>

\* The sequence without the element at position i.
\* Dropping the last row instead of the one found.
RemoveLast(seq, i) == SubSeq(seq, 1, Len(seq) - 1)

RemoveAt(seq, i) == SubSeq(seq, 1, i - 1) \o SubSeq(seq, i + 1, Len(seq))

\* TransactionService.deleteTransaction behind DELETE /api/transactions/:id,
\* up to its delete: findUnique({ id }) and the two checks.
DeleteTransaction(w, userId, id) ==
    LET found == TransactionById(id)
        i     == CHOOSE j \in found : TRUE
    IN  /\ edit[w].pc = "idle"
        /\ IF found = {}
           THEN /\ response' = TransactionAnswer("deleteTransaction", 500,
                                                 "NOT_FOUND", userId, id)
                /\ UNCHANGED edit
           ELSE IF transactions[i].userId # userId
           THEN /\ response' = TransactionAnswer("deleteTransaction", 500,
                                                 "FORBIDDEN", userId, id)
                /\ UNCHANGED edit
           ELSE /\ edit' = [edit EXCEPT ![w] =
                              [pc |-> "transaction.delete",
                               op |-> "deleteTransaction", userId |-> userId,
                               id |-> id]]
                /\ UNCHANGED response
        /\ UNCHANGED <<now, accounts, transfers, categories, goals, goalContributions,
                       contrib, creditCards, recurrences, transactions, gen, calc,
                       lastId>>

\* await prisma.transaction.delete({ where: { id } }) and the answer; with
\* the row gone the delete throws and the catch answers 500.
TransactionDelete(w) ==
    /\ edit[w].pc = "transaction.delete"
    /\ LET e     == edit[w]
           found == TransactionById(e.id)
           i     == CHOOSE j \in found : TRUE
       IN  IF found = {}
           THEN /\ response' = TransactionAnswer(e.op, 500,
                                   "Record to delete does not exist", e.userId, e.id)
                /\ UNCHANGED transactions
           ELSE /\ transactions' = RemoveAt(transactions, i)
                /\ response' = TransactionAnswer(e.op, 204, NULL, e.userId, e.id)
    /\ edit' = [edit EXCEPT ![w] = IdleGen]
    /\ UNCHANGED <<now, accounts, transfers, categories, goals, goalContributions,
                   contrib, creditCards, recurrences, gen, calc, lastId>>

\* updateData with the ledger date set to the payment instant on every payment.
updateDataAlwaysDated(paid, paidAtDate, accountId) ==
    [paid |-> paid,
     paidAt |-> IF paid THEN (IF paidAtDate # NONE THEN paidAtDate ELSE now)
                ELSE NONE]
    @@ Given(paid, "date", IF paidAtDate # NONE THEN paidAtDate ELSE now)
    @@ Given(Truthy(accountId), "accountId", accountId)

\* const updateData = { paid, paidAt: paid ? (paidAt || new Date()) : null };
\* date when paid with a paidAt, accountId when provided.
updateData(paid, paidAtDate, accountId) ==
    [paid |-> paid,
     paidAt |-> IF paid THEN (IF paidAtDate # NONE THEN paidAtDate ELSE now)
                ELSE NONE]
    @@ Given(paid /\ paidAtDate # NONE, "date", paidAtDate)
    @@ Given(Truthy(accountId), "accountId", accountId)

\* TransactionService.updateTransactionPaidStatus behind
\* PATCH /api/transactions/:id/paid, up to the await that follows
\* transaction.findFirst; paidAt and accountId are optional.
UpdateTransactionPaidStatus(w, userId, id, paid, paidAt, accountId) ==
    LET found   == OwnedTransaction(id, userId)
        request == <<paid, paidAt, accountId>>
    IN  /\ edit[w].pc = "idle"
        /\ IF found = {}
           THEN /\ response' = TransactionAnswer("updateTransactionPaidStatus", 500,
                                                 "Transaction not found", userId, id)
                /\ UNCHANGED edit
           ELSE IF Truthy(accountId)
           THEN /\ edit' = [edit EXCEPT ![w] =
                              [pc |-> "account.findFirst",
                               op |-> "updateTransactionPaidStatus",
                               userId |-> userId, id |-> id, request |-> request]]
                /\ UNCHANGED response
           ELSE /\ edit' = [edit EXCEPT ![w] =
                              AwaitTransactionUpdate("updateTransactionPaidStatus",
                                  userId, id, request,
                                  updateData(paid, ParseGiven(paidAt), accountId))]
                /\ UNCHANGED response
        /\ UNCHANGED <<now, accounts, transfers, categories, goals, goalContributions,
                       contrib, creditCards, recurrences, transactions, gen, calc,
                       lastId>>

\* const account = await prisma.account.findFirst({ id: accountId, userId })
\* of updateTransactionPaidStatus, and updateData built after it.
PaidFindAccount(w) ==
    /\ edit[w].pc = "account.findFirst"
    /\ LET e == edit[w]
           accountId == e.request[3]
           accountOwned == /\ accountId \in DOMAIN accounts
                           /\ accounts[accountId].userId = e.userId
       IN  IF ~accountOwned
           THEN /\ response' = TransactionAnswer(e.op, 500, "Account not found",
                                                 e.userId, e.id)
                /\ edit' = [edit EXCEPT ![w] = IdleGen]
           ELSE /\ edit' = [edit EXCEPT ![w] =
                              AwaitTransactionUpdate(e.op, e.userId, e.id, e.request,
                                  updateData(e.request[1], ParseGiven(e.request[2]),
                                             accountId))]
                /\ UNCHANGED response
    /\ UNCHANGED <<now, accounts, transfers, categories, goals, goalContributions,
                   contrib, creditCards, recurrences, transactions, gen, calc, lastId>>

(***************************************************************************)
(* The routes that write tables accounts, categories and credit_cards:     *)
(* src/src/routes/accounts.ts, src/src/routes/categories.ts,               *)
(* src/src/routes/creditCards.ts, the credit-card router of                *)
(* src/src/server.ts and the accounts router of src/unnamed/part_001.       *)
(* Deleting a row deletes the rows that name it through a foreign key      *)
(* ON DELETE CASCADE and empties the columns that name it ON DELETE SET    *)
(* NULL (migration.sql:166-199).  Their catch answers 500 'Internal        *)
(* server error' whatever was thrown, 400 with the message of the first    *)
(* issue for a body the schema refuses.                                    *)
(***************************************************************************)
\* prisma.account.findFirst({ where: { id, userId } })
AccountOwned(id, userId) == id \in DOMAIN accounts /\ accounts[id].userId = userId

\* A table without the rows whose ids are in gone.
Without(table, gone) == [id \in DOMAIN table \ gone |-> table[id]]

\* Table transactions once the cards in gone are deleted.
CardsSetNull(rows, gone) ==
    [j \in 1..Len(rows) |->
        IF rows[j].creditCardId \in gone
        THEN [rows[j] EXCEPT !.creditCardId = NULL] ELSE rows[j]]

\* The answer of a route of these tables; id is the row it names or stores.
CatalogAnswer(op, status, error, userId, id) ==
    [op |-> op, status |-> status, error |-> error, userId |-> userId, id |-> id]

\* createAccountSchema, updateAccountSchema: a name that is given is not '';
\* the type is one of the enum in every body here.  The value is the message
\* of the first issue, NULL for a body that passes.
AccountIssue(data) ==
    IF data.name = "" THEN "Account name is required" ELSE NULL

\* POST /api/accounts: the schema (initialBalance defaults to 0), then one
\* create; the id is the next one of the table.
CreateAccount(userId, data) ==
    LET id == NewAccountIds[lastId.accounts + 1]
    IN  /\ lastId.accounts < Len(NewAccountIds)
        /\ IF AccountIssue(data) # NULL
           THEN /\ response' = CatalogAnswer("createAccount", 400, AccountIssue(data),
                                             userId, NULL)
                /\ UNCHANGED <<accounts, lastId>>
           ELSE /\ accounts' =
                       accounts @@ (id :> [userId |-> userId,
                                           initialBalance |->
                                               IF data.initialBalance = NONE THEN 0
                                               ELSE data.initialBalance])
                /\ lastId' = Taken("accounts", 1)
                /\ response' = CatalogAnswer("createAccount", 201, NULL, userId, id)
        /\ UNCHANGED <<now, transfers, categories, edit, goals, goalContributions,
                       contrib, creditCards, recurrences, transactions, gen, calc>>

\* PUT /api/accounts/:id, up to its update: the schema, then
\* account.findFirst({ id, userId }).
UpdateAccount(w, userId, id, data) ==
    /\ edit[w].pc = "idle"
    /\ IF AccountIssue(data) # NULL
       THEN /\ response' = CatalogAnswer("updateAccount", 400, AccountIssue(data),
                                         userId, id)
            /\ UNCHANGED edit
       ELSE IF ~AccountOwned(id, userId)
       THEN /\ response' = CatalogAnswer("updateAccount", 404, "Account not found",
                                         userId, id)
            /\ UNCHANGED edit
       ELSE /\ edit' = [edit EXCEPT ![w] =
                          [pc |-> "account.update", op |-> "updateAccount",
                           userId |-> userId, id |-> id,
                           data |-> Given(data.initialBalance # NONE,
                                          "initialBalance", data.initialBalance)]]
            /\ UNCHANGED response
    /\ UNCHANGED <<now, accounts, transfers, categories, goals, goalContributions,
                   contrib, creditCards, recurrences, transactions, gen, calc, lastId>>

\* await prisma.account.update({ where: { id }, data }); it throws when the
\* row is gone.
AccountUpdate(w) ==
    /\ edit[w].pc = "account.update"
    /\ LET e == edit[w]
       IN  IF e.id \notin DOMAIN accounts
           THEN /\ response' = CatalogAnswer(e.op, 500, "Internal server error",
                                             e.userId, e.id)
                /\ UNCHANGED accounts
           ELSE /\ accounts' = [accounts EXCEPT ![e.id] = ApplyUpdate(@, e.data)]
                /\ response' = CatalogAnswer(e.op, 200, NULL, e.userId, e.id)
    /\ edit' = [edit EXCEPT ![w] = IdleGen]
    /\ UNCHANGED <<now, transfers, categories, goals, goalContributions, contrib,
                   creditCards, recurrences, transactions, gen, calc, lastId>>

\* PUT /api/accounts/:id of the accounts router of src/unnamed/part_001, up to
\* the await that follows account.updateMany({ id, userId }): the schema, the
\* write, 404 when it reaches no row.
UpdateAccountMany(w, userId, id, data) ==
    /\ edit[w].pc = "idle"
    /\ IF AccountIssue(data) # NULL
       THEN /\ response' = CatalogAnswer("updateAccountMany", 400, AccountIssue(data),
                                         userId, id)
            /\ UNCHANGED <<edit, accounts>>
       ELSE IF ~AccountOwned(id, userId)
       THEN /\ response' = CatalogAnswer("updateAccountMany", 404,
                                         "Account not found", userId, id)
            /\ UNCHANGED <<edit, accounts>>
       ELSE /\ accounts' =
                   [accounts EXCEPT ![id] =
                       ApplyUpdate(@, Given(data.initialBalance # NONE,
                                            "initialBalance", data.initialBalance))]
            /\ edit' = [edit EXCEPT ![w] =
                          [pc |-> "account.findUnique", op |-> "updateAccountMany",
                           userId |-> userId, id |-> id]]
            /\ UNCHANGED response
    /\ UNCHANGED <<now, transfers, categories, goals, goalContributions, contrib,
                   creditCards, recurrences, transactions, gen, calc, lastId>>

\* const updatedAccount = await prisma.account.findUnique({ where: { id } })
\* and res.json(updatedAccount): the row, or null when it is gone.
AccountFindUnique(w) ==
    /\ edit[w].pc = "account.findUnique"
    /\ LET e == edit[w]
       IN  response' = CatalogAnswer(e.op, 200, NULL, e.userId,
                                     IF e.id \in DOMAIN accounts THEN e.id ELSE NULL)
    /\ edit' = [edit EXCEPT ![w] = IdleGen]
    /\ UNCHANGED <<now, accounts, transfers, categories, goals, goalContributions,
                   contrib, creditCards, recurrences, transactions, gen, calc, lastId>>

\* DELETE /api/accounts/:id: deleteMany({ id, userId }).  With the account go
\* its cards, its transactions and the transfers from or to it (CASCADE);
\* the transactions charged to its cards and the goals saved on the account
\* lose the reference (SET NULL, goals_accountId_fkey).  The columns
\* accountId, categoryId and creditCardId of table recurrences carry no
\* foreign key.
DeleteAccount(userId, id) ==
    LET cards == {k \in DOMAIN creditCards : creditCards[k].accountId = id}
    IN  /\ UNCHANGED <<now, categories, edit, goalContributions, contrib,
                       recurrences, gen, calc, lastId>>
        /\ IF ~AccountOwned(id, userId)
           THEN /\ response' = CatalogAnswer("deleteAccount", 404, "Account not found",
                                             userId, id)
                /\ UNCHANGED <<accounts, creditCards, transactions, transfers, goals>>
           ELSE /\ accounts' = Without(accounts, {id})
                /\ creditCards' = Without(creditCards, cards)
                /\ transactions' =
                       CardsSetNull(SelectSeq(transactions,
                                              LAMBDA t : t.accountId # id), cards)
                /\ transfers' = SelectSeq(transfers,
                                          LAMBDA t : /\ t.fromAccountId # id
                                                     /\ t.toAccountId # id)
                /\ goals' = [g \in 1..Len(goals) |->
                                IF goals[g].accountId = id
                                THEN [goals[g] EXCEPT !.accountId = NULL]
                                ELSE goals[g]]
                /\ response' = CatalogAnswer("deleteAccount", 204, NULL, userId, id)

\* createCategorySchema, updateCategorySchema: a name that is given is not
\* ''; the type is one of the enum in every body here.
CategoryIssue(data) ==
    IF data.name = "" THEN "Category name is required" ELSE NULL

\* POST /api/categories: the schema, then one create.
CreateCategory(userId, data) ==
    LET id == NewCategoryIds[lastId.categories + 1]
    IN  /\ lastId.categories < Len(NewCategoryIds)
        /\ IF CategoryIssue(data) # NULL
           THEN /\ response' = CatalogAnswer("createCategory", 400,
                                             CategoryIssue(data), userId, NULL)
                /\ UNCHANGED <<categories, lastId>>
           ELSE /\ categories' = categories @@ (id :> [userId |-> userId])
                /\ lastId' = Taken("categories", 1)
                /\ response' = CatalogAnswer("createCategory", 201, NULL, userId, id)
        /\ UNCHANGED <<now, accounts, transfers, edit, goals, goalContributions,
                       contrib, creditCards, recurrences, transactions, gen, calc>>

\* PUT /api/categories/:id, up to the await that follows
\* updateMany({ id, userId }): the schema, the write of name, type, color and
\* icon (columns the model does not hold), 404 when it reaches no row.
UpdateCategory(w, userId, id, data) ==
    /\ edit[w].pc = "idle"
    /\ IF CategoryIssue(data) # NULL
       THEN /\ response' = CatalogAnswer("updateCategory", 400, CategoryIssue(data),
                                         userId, id)
            /\ UNCHANGED edit
       ELSE IF ~(id \in DOMAIN categories /\ categories[id].userId = userId)
       THEN /\ response' = CatalogAnswer("updateCategory", 404, "Category not found",
                                         userId, id)
            /\ UNCHANGED edit
       ELSE /\ edit' = [edit EXCEPT ![w] =
                          [pc |-> "category.findUnique", op |-> "updateCategory",
                           userId |-> userId, id |-> id]]
            /\ UNCHANGED response
    /\ UNCHANGED <<now, accounts, transfers, categories, goals, goalContributions,
                   contrib, creditCards, recurrences, transactions, gen, calc, lastId>>

\* const updatedCategory = await prisma.category.findUnique({ where: { id } })
\* and res.json(updatedCategory): the row, or null when it is gone.
CategoryFindUnique(w) ==
    /\ edit[w].pc = "category.findUnique"
    /\ LET e == edit[w]
       IN  response' = CatalogAnswer(e.op, 200, NULL, e.userId,
                                     IF e.id \in DOMAIN categories THEN e.id ELSE NULL)
    /\ edit' = [edit EXCEPT ![w] = IdleGen]
    /\ UNCHANGED <<now, accounts, transfers, categories, goals, goalContributions,
                   contrib, creditCards, recurrences, transactions, gen, calc, lastId>>

\* DELETE /api/categories/:id: deleteMany({ id, userId }); the transactions of
\* the category go with it (CASCADE).
DeleteCategory(userId, id) ==
    /\ UNCHANGED <<now, accounts, transfers, edit, goals, goalContributions, contrib,
                   creditCards, recurrences, gen, calc, lastId>>
    /\ IF ~(id \in DOMAIN categories /\ categories[id].userId = userId)
       THEN /\ response' = CatalogAnswer("deleteCategory", 404, "Category not found",
                                         userId, id)
            /\ UNCHANGED <<categories, transactions>>
       ELSE /\ categories' = Without(categories, {id})
            /\ transactions' = SelectSeq(transactions, LAMBDA t : t.categoryId # id)
            /\ response' = CatalogAnswer("deleteCategory", 204, NULL, userId, id)

\* createCreditCardSchema, updateCreditCardSchema: a name and an accountId
\* that are given are not '', closingDay and dueDay are
\* z.number().min(1).max(31, message) where they are given.  The value is the
\* message of the first issue in the order of the schema's keys, NULL for a
\* body that passes; min(1) carries the message of the library.
CreditCardIssue(data) ==
    IF data.name = "" THEN "Credit card name is required"
    ELSE IF data.closingDay # NONE /\ data.closingDay < 1
    THEN "Number must be greater than or equal to 1"
    ELSE IF data.closingDay # NONE /\ data.closingDay > MaxDay
    THEN "Closing day must be between 1 and 31"
    ELSE IF data.dueDay # NONE /\ data.dueDay < 1
    THEN "Number must be greater than or equal to 1"
    ELSE IF data.dueDay # NONE /\ data.dueDay > MaxDay
    THEN "Due day must be between 1 and 31"
    ELSE IF data.accountId = "" THEN "Account ID is required"
    ELSE NULL

\* POST /api/credit-cards (both routers), up to its create: the schema and
\* account.findFirst({ id: accountId, userId }).
CreateCreditCard(w, userId, data) ==
    /\ edit[w].pc = "idle"
    /\ IF CreditCardIssue(data) # NULL
       THEN /\ response' = CatalogAnswer("createCreditCard", 400,
                                         CreditCardIssue(data), userId, NULL)
            /\ UNCHANGED edit
       ELSE IF ~AccountOwned(data.accountId, userId)
       THEN /\ response' = CatalogAnswer("createCreditCard", 404,
                                         "Account not found", userId, NULL)
            /\ UNCHANGED edit
       ELSE /\ edit' = [edit EXCEPT ![w] =
                          [pc |-> "creditCard.create", op |-> "createCreditCard",
                           userId |-> userId, data |-> data]]
            /\ UNCHANGED response
    /\ UNCHANGED <<now, accounts, transfers, categories, goals, goalContributions,
                   contrib, creditCards, recurrences, transactions, gen, calc, lastId>>

\* await prisma.creditCard.create({ data: { ...data, userId } }); it throws
\* when the account is not stored any more.
CreditCardCreate(w) ==
    /\ edit[w].pc = "creditCard.create"
    /\ lastId.creditCards < Len(NewCreditCardIds)
    /\ LET e  == edit[w]
           id == NewCreditCardIds[lastId.creditCards + 1]
       IN  IF e.data.accountId \notin DOMAIN accounts
           THEN /\ response' = CatalogAnswer(e.op, 500, "Internal server error",
                                             e.userId, NULL)
                /\ UNCHANGED <<creditCards, lastId>>
           ELSE /\ creditCards' =
                       creditCards @@ (id :> [userId |-> e.userId,
                                              accountId |-> e.data.accountId,
                                              closingDay |-> e.data.closingDay,
                                              dueDay |-> e.data.dueDay])
                /\ lastId' = Taken("creditCards", 1)
                /\ response' = CatalogAnswer(e.op, 201, NULL, e.userId, id)
    /\ edit' = [edit EXCEPT ![w] = IdleGen]
    /\ UNCHANGED <<now, accounts, transfers, categories, goals, goalContributions,
                   contrib, recurrences, transactions, gen, calc>>

\* The data of the update of a card: the fields the body holds.
CreditCardUpdateData(data) ==
    Given(data.closingDay # NONE, "closingDay", data.closingDay)
    @@ Given(data.dueDay # NONE, "dueDay", data.dueDay)
    @@ Given(data.accountId # NULL, "accountId", data.accountId)

\* A PUT /api/credit-cards/:id that awaits the store call pc.
AwaitCreditCard(pc, op, userId, id, data) ==
    [pc |-> pc, op |-> op, userId |-> userId, id |-> id, data |-> data]

\* const existingCard = await prisma.creditCard.findFirst({ id, userId }) of
\* the router of src/src/server.ts.
FindCreditCard(w, op, userId, id, data) ==
    IF ~(id \in DOMAIN creditCards /\ creditCards[id].userId = userId)
    THEN /\ response' = CatalogAnswer(op, 404, "Credit card not found", userId, id)
         /\ edit' = [edit EXCEPT ![w] = IdleGen]
    ELSE /\ edit' = [edit EXCEPT ![w] =
                       AwaitCreditCard("creditCard.update", op, userId, id, data)]
         /\ UNCHANGED response

\* PUT /api/credit-cards/:id of src/src/server.ts, up to the await that
\* follows its first store call: account.findFirst when the body holds an
\* accountId, creditCard.findFirst otherwise.
UpdateCreditCard(w, userId, id, data) ==
    /\ edit[w].pc = "idle"
    /\ IF CreditCardIssue(data) # NULL
       THEN /\ response' = CatalogAnswer("updateCreditCard", 400,
                                         CreditCardIssue(data), userId, id)
            /\ UNCHANGED edit
       ELSE IF Truthy(data.accountId)
       THEN IF ~AccountOwned(data.accountId, userId)
            THEN /\ response' = CatalogAnswer("updateCreditCard", 404,
                                              "Account not found", userId, id)
                 /\ UNCHANGED edit
            ELSE /\ edit' = [edit EXCEPT ![w] =
                               AwaitCreditCard("creditCard.findFirst",
                                               "updateCreditCard", userId, id,
                                               CreditCardUpdateData(data))]
                 /\ UNCHANGED response
       ELSE FindCreditCard(w, "updateCreditCard", userId, id,
                           CreditCardUpdateData(data))
    /\ UNCHANGED <<now, accounts, transfers, categories, goals, goalContributions,
                   contrib, creditCards, recurrences, transactions, gen, calc, lastId>>

\* await prisma.creditCard.findFirst(...) after the account was looked up.
CreditCardFindFirst(w) ==
    /\ edit[w].pc = "creditCard.findFirst"
    /\ FindCreditCard(w, edit[w].op, edit[w].userId, edit[w].id, edit[w].data)
    /\ UNCHANGED <<now, accounts, transfers, categories, goals, goalContributions,
                   contrib, creditCards, recurrences, transactions, gen, calc, lastId>>

\* The write of a card's fields where the rows `matching` are those the call
\* reaches: the card takes the fields of data unless the account it names is
\* not stored, which makes the call throw.
WriteCreditCard(e, matching, missing) ==
    IF ~matching
    THEN /\ response' = missing
         /\ UNCHANGED creditCards
    ELSE IF "accountId" \in DOMAIN e.data /\ e.data["accountId"] \notin DOMAIN accounts
    THEN /\ response' = CatalogAnswer(e.op, 500, "Internal server error",
                                      e.userId, e.id)
         /\ UNCHANGED creditCards
    ELSE /\ creditCards' = [creditCards EXCEPT ![e.id] = ApplyUpdate(@, e.data)]
         /\ response' = CatalogAnswer(e.op, 200, NULL, e.userId, e.id)

\* await prisma.creditCard.update({ where: { id }, data }) of the router of
\* src/src/server.ts; it throws when the card is gone.
CreditCardUpdate(w) ==
    /\ edit[w].pc = "creditCard.update"
    /\ WriteCreditCard(edit[w], edit[w].id \in DOMAIN creditCards,
                       CatalogAnswer(edit[w].op, 500, "Internal server error",
                                     edit[w].userId, edit[w].id))
    /\ edit' = [edit EXCEPT ![w] = IdleGen]
    /\ UNCHANGED <<now, accounts, transfers, categories, goals, goalContributions,
                   contrib, recurrences, transactions, gen, calc, lastId>>

\* await prisma.creditCard.updateMany({ where: { id, userId }, data }) of
\* src/src/routes/creditCards.ts: 404 when it reaches no row, 500 when the
\* account it names is not stored, else the handler goes on to findUnique.
CreditCardUpdateMany(w, e) ==
    IF ~(e.id \in DOMAIN creditCards /\ creditCards[e.id].userId = e.userId)
    THEN /\ response' = CatalogAnswer(e.op, 404, "Credit card not found",
                                      e.userId, e.id)
         /\ edit' = [edit EXCEPT ![w] = IdleGen]
         /\ UNCHANGED creditCards
    ELSE IF "accountId" \in DOMAIN e.data /\ e.data["accountId"] \notin DOMAIN accounts
    THEN /\ response' = CatalogAnswer(e.op, 500, "Internal server error",
                                      e.userId, e.id)
         /\ edit' = [edit EXCEPT ![w] = IdleGen]
         /\ UNCHANGED creditCards
    ELSE /\ creditCards' = [creditCards EXCEPT ![e.id] = ApplyUpdate(@, e.data)]
         /\ edit' = [edit EXCEPT ![w] =
                        AwaitCreditCard("creditCard.findUnique", e.op, e.userId,
                                        e.id, e.data)]
         /\ UNCHANGED response

\* PUT /api/credit-cards/:id of src/src/routes/creditCards.ts, up to the await
\* that follows its first store call: account.findFirst when the body holds an
\* accountId, updateMany otherwise.
UpdateCreditCardMany(w, userId, id, data) ==
    LET e == AwaitCreditCard("creditCard.updateMany", "updateCreditCardMany",
                             userId, id, CreditCardUpdateData(data))
    IN  /\ edit[w].pc = "idle"
        /\ IF CreditCardIssue(data) # NULL
           THEN /\ response' = CatalogAnswer(e.op, 400, CreditCardIssue(data),
                                             userId, id)
                /\ UNCHANGED <<edit, creditCards>>
           ELSE IF Truthy(data.accountId)
           THEN IF ~AccountOwned(data.accountId, userId)
                THEN /\ response' = CatalogAnswer(e.op, 404, "Account not found",
                                                  userId, id)
                     /\ UNCHANGED <<edit, creditCards>>
                ELSE /\ edit' = [edit EXCEPT ![w] = e]
                     /\ UNCHANGED <<response, creditCards>>
           ELSE CreditCardUpdateMany(w, e)
        /\ UNCHANGED <<now, accounts, transfers, categories, goals, goalContributions,
                       contrib, recurrences, transactions, gen, calc, lastId>>

\* The updateMany of a request that looked an account up first.
CreditCardUpdateManyStep(w) ==
    /\ edit[w].pc = "creditCard.updateMany"
    /\ CreditCardUpdateMany(w, edit[w])
    /\ UNCHANGED <<now, accounts, transfers, categories, goals, goalContributions,
                   contrib, recurrences, transactions, gen, calc, lastId>>

\* const updatedCreditCard = await prisma.creditCard.findUnique({ where: { id } })
\* and res.json(updatedCreditCard): the row, or null when it is gone.
CreditCardFindUnique(w) ==
    /\ edit[w].pc = "creditCard.findUnique"
    /\ LET e == edit[w]
       IN  response' = CatalogAnswer(e.op, 200, NULL, e.userId,
                                     IF e.id \in DOMAIN creditCards THEN e.id ELSE NULL)
    /\ edit' = [edit EXCEPT ![w] = IdleGen]
    /\ UNCHANGED <<now, accounts, transfers, categories, goals, goalContributions,
                   contrib, creditCards, recurrences, transactions, gen, calc, lastId>>

(***************************************************************************)
(* The transaction routes and the card deletion, while each user owns at   *)
(* most MaxOwned transactions.  u1 sends every kind of request, u2 creates *)
(* and deletes.  A creation that names a card is in flight between its     *)
(* findUnique and its create, and the other requests are served meanwhile. *)
(***************************************************************************)
MaxOwned == 1

OwnedBy(userId) == {i \in 1..Len(transactions) : transactions[i].userId = userId}

\* Request bodies of POST /api/transactions that pass createTransactionSchema.
StoreInputs(userId) ==
    IF userId = "u1"
    THEN {TransactionBase,
          [TransactionBase EXCEPT !.purchaseDate = <<2024, 1, 10>>],
          [TransactionBase EXCEPT !.creditCardId = "k1", !.date = <<2024, 1, 20>>]}
    ELSE {[TransactionBase EXCEPT !.accountId = "a2", !.categoryId = "c2"]}

\* Request bodies of PUT /api/transactions/:id: every field is optional.
NoTransactionPatch ==
    [type |-> NULL, amount |-> NONE, date |-> NoYmd, purchaseDate |-> NoYmd,
     description |-> NULL, accountId |-> NULL, categoryId |-> NULL,
     creditCardId |-> NULL, installmentNumber |-> NONE, totalInstallments |-> NONE,
     isRecurringCharge |-> NoFlag]

TransactionPatches ==
    {[NoTransactionPatch EXCEPT !.date = <<2024, 2, 5>>],
     [NoTransactionPatch EXCEPT !.creditCardId = "k1"],
     [NoTransactionPatch EXCEPT !.accountId = "a9"],
     [NoTransactionPatch EXCEPT !.isRecurringCharge = <<TRUE>>]}

\* Request bodies of PATCH /api/transactions/:id/paid: <<paid, paidAt, accountId>>
PaidInputs ==
    {<<TRUE, NoYmd, NULL>>, <<TRUE, <<2024, 1, 20>>, "a3">>,
     <<FALSE, <<2024, 1, 20>>, NULL>>, <<TRUE, NoYmd, "a2">>}

\* An update that moves a ledger date is served while the date stays within
\* MaxMonthsAhead months of 31 days of the first clock value.
MaxMonthsAhead == 2

StoreHorizon == NowStart + MaxMonthsAhead * 31 * 24

\* The number of transactions created, deleted ones included.
MaxIds == 2

\* The ids a request may name: those handed out and one that is not.
RequestIds == 1..(MaxIds + 1)

\* Worker w1 serves every route, worker w2 a DELETE that arrives while the
\* request of w1 is between two store calls.
NextStore ==
    \/ \E userId \in Users : \E data \in StoreInputs(userId) :
           /\ Cardinality(OwnedBy(userId)) < MaxOwned
           /\ lastId.transactions < MaxIds
           /\ CreateTransaction("w1", userId, data)
    \/ \E id \in RequestIds, data \in TransactionPatches :
           UpdateTransaction("w1", "u1", id, data)
    \/ \E userId \in Users, id \in RequestIds : DeleteTransaction("w1", userId, id)
    \/ \E id \in RequestIds :
           edit["w1"].pc # "idle" /\ DeleteTransaction("w2", "u1", id)
    \/ \E id \in RequestIds, p \in PaidInputs :
           UpdateTransactionPaidStatus("w1", "u1", id, p[1], p[2], p[3])
    \/ \E id \in {"k1", "k2"} : DeleteCreditCard("u1", id)
    \/ TransactionCreate("w1")
    \/ TransactionFindUnique("w1")
    \/ PaidFindAccount("w1")
    \/ /\ TransactionUpdate("w1")
       /\ \A i \in 1..Len(transactions') : transactions'[i].date <= StoreHorizon
    \/ \E w \in Workers : TransactionDelete(w)

SpecStore == Init /\ [][NextStore]_vars

(***************************************************************************)
(* The transaction store.                                                  *)
(***************************************************************************)
\* C11: in every reachable state of the store each transaction has a ledger
\* date, has a purchaseDate if and only if it has a creditCardId, and has
\* installmentNumber <= totalInstallments whenever both are present.
C11_TransactionShape ==
    \A i \in 1..Len(transactions) :
        /\ transactions[i].date # NONE
        /\ transactions[i].purchaseDate # NONE <=> transactions[i].creditCardId # NULL
        /\ (/\ transactions[i].installmentNumber # NONE
            /\ transactions[i].totalInstallments # NONE)
           => transactions[i].installmentNumber <= transactions[i].totalInstallments

(***************************************************************************)
(* src/src/routes/transfers.ts: POST /; src/src/routes/accounts.ts:        *)
(* GET /balances/all.                                                      *)
(***************************************************************************)
\* The accounts among ids that prisma.account.findMany({ id: { in }, userId })
\* returns.
OwnedAccounts(ids, userId) ==
    {id \in ids : id \in DOMAIN accounts /\ accounts[id].userId = userId}

\* The positions of the rows that prisma.transfer.findFirst({ id, userId })
\* matches.
OwnedTransfer(id, userId) ==
    {i \in 1..Len(transfers) : transfers[i].id = id /\ transfers[i].userId = userId}

\* The foreign keys transfers.fromAccountId and transfers.toAccountId.
TransferAccountsExist(row) ==
    /\ row.fromAccountId \in DOMAIN accounts
    /\ row.toAccountId \in DOMAIN accounts

\* createTransferSchema: a positive amount, account ids that are not '', and
\* the refinement that the two differ.  The value is the message of the first
\* issue, NULL for a body that passes.
CreateTransferIssue(data) ==
    IF data.amount <= 0 THEN "Amount must be positive"
    ELSE IF data.fromAccountId = "" THEN "From account ID is required"
    ELSE IF data.toAccountId = "" THEN "To account ID is required"
    ELSE IF data.fromAccountId = data.toAccountId
    THEN "From account and to account must be different"
    ELSE NULL

\* POST /api/transfers, up to its create: the schema, then both accounts must
\* be the user's; the date is parsed by parseDateToBrazilTimezone.
CreateTransfer(w, userId, data) ==
    /\ edit[w].pc = "idle"
    /\ IF CreateTransferIssue(data) # NULL
       THEN /\ response' = Answer("createTransfer", 400, CreateTransferIssue(data))
            /\ UNCHANGED edit
       ELSE IF Cardinality(OwnedAccounts({data.fromAccountId, data.toAccountId},
                                         userId)) # 2
       THEN /\ response' = Answer("createTransfer", 404,
                                  "One or both accounts not found")
            /\ UNCHANGED edit
       ELSE /\ edit' = [edit EXCEPT ![w] =
                          [pc |-> "transfer.create", op |-> "createTransfer",
                           row |-> [amount |-> data.amount,
                                    date |-> parseDateToBrazilTimezone(data.date),
                                    fromAccountId |-> data.fromAccountId,
                                    toAccountId |-> data.toAccountId,
                                    userId |-> userId]]]
            /\ UNCHANGED response
    /\ UNCHANGED <<now, accounts, transfers, categories, goals, goalContributions,
                   contrib, creditCards, recurrences, transactions, gen, calc, lastId>>

\* await prisma.transfer.create({ data: { ...data, userId } }); it throws when
\* one of the accounts is not stored any more.
TransferCreate(w) ==
    /\ edit[w].pc = "transfer.create"
    /\ LET e == edit[w]
       IN  IF ~TransferAccountsExist(e.row)
           THEN /\ response' = Answer(e.op, 500, "Internal server error")
                /\ UNCHANGED <<transfers, lastId>>
           ELSE /\ transfers' = Append(transfers,
                                       [id |-> lastId.transfers + 1] @@ e.row)
                /\ lastId' = Taken("transfers", 1)
                /\ response' = Answer(e.op, 201, NULL)
    /\ edit' = [edit EXCEPT ![w] = IdleGen]
    /\ UNCHANGED <<now, accounts, categories, goals, goalContributions, contrib,
                   creditCards, recurrences, transactions, gen, calc>>

\* DELETE /api/transfers/:id: deleteMany({ id, userId })
DeleteTransfer(userId, id) ==
    /\ IF OwnedTransfer(id, userId) = {}
       THEN /\ response' = Answer("deleteTransfer", 404, "Transfer not found")
            /\ UNCHANGED transfers
       ELSE /\ transfers' = SelectSeq(transfers, LAMBDA t : t.id # id)
            /\ response' = Answer("deleteTransfer", 204, NULL)
    /\ UNCHANGED <<now, accounts, categories, edit, goals, goalContributions, contrib,
                   creditCards, recurrences, transactions, gen, calc, lastId>>

\* const targetDate = endDate ? new Date(endDate) : new Date();
\* targetDate.setHours(23, 59, 59, 999).  Stored dates are whole hours, so
\* `date <= targetDate` is decided by the hour.
TargetDate(endDate) == setHours(IF endDate # NoYmd THEN ParseDate(endDate) ELSE now, 23)

\* _sum.amount of a groupBy over the rows that match
SumOf(rows, Matches(_)) == SumAmounts(SelectSeq(rows, Matches))

\* The balance GET /balances/all reports for one account.
AccountBalance(id, targetDate) ==
    LET income  == SumOf(transactions, LAMBDA t : /\ t.accountId = id
                                                  /\ t.date <= targetDate
                                                  /\ t.type = "INCOME")
        expense == SumOf(transactions, LAMBDA t : /\ t.accountId = id
                                                  /\ t.date <= targetDate
                                                  /\ t.type = "EXPENSE")
        transfersFrom == SumOf(transfers, LAMBDA t : /\ t.fromAccountId = id
                                                     /\ t.date <= targetDate)
        transfersTo   == SumOf(transfers, LAMBDA t : /\ t.toAccountId = id
                                                     /\ t.date <= targetDate)
    IN  accounts[id].initialBalance + income - expense - transfersFrom + transfersTo

\* prisma.<table>.groupBy({ by: [by], where, _sum: { amount: true } }) over the
\* rows that match where: one group per key that has a matching row, with the
\* sum of its amounts.
GroupBy(by, matching) ==
    LET keys == {matching[i][by] : i \in 1..Len(matching)}
    IN  [k \in keys |-> SumAmounts(SelectSeq(matching, LAMBDA r : r[by] = k))]

\* new Map(groups.map(...)).get(id) || 0
MapGet(map, id) == IF id \in DOMAIN map THEN map[id] ELSE 0

\* res.json(accountsWithBalances): the balance of every account listed.
BalancesAnswer(userId, endDate, balances) ==
    [op |-> "balances", status |-> 200, error |-> NULL, userId |-> userId,
     endDate |-> endDate, balances |-> balances]

\* GET /api/accounts/balances/all?endDate=&accountId=, up to the await that
\* follows account.findMany: without an account the answer is the empty list,
\* else the handler computes targetDate and goes on to the four groupBy calls.
GetBalances(w, userId, endDate, accountId) ==
    /\ edit[w].pc = "idle"
    /\ LET listed == {id \in DOMAIN accounts :
                         /\ accounts[id].userId = userId
                         /\ Truthy(accountId) => id = accountId}
       IN  IF listed = {}
           THEN /\ response' = BalancesAnswer(userId, endDate, <<>>)
                /\ UNCHANGED edit
           ELSE /\ edit' = [edit EXCEPT ![w] =
                              [pc |-> "balances.income", op |-> "balances",
                               userId |-> userId, endDate |-> endDate,
                               targetDate |-> TargetDate(endDate),
                               accounts |-> [id \in listed |->
                                                accounts[id].initialBalance]]]
                /\ UNCHANGED response
    /\ UNCHANGED <<now, accounts, transfers, categories, goals, goalContributions,
                   contrib, creditCards, recurrences, transactions, gen, calc, lastId>>

\* const incomeByAccount = await prisma.transaction.groupBy(... type: 'INCOME')
BalancesIncome(w) ==
    /\ edit[w].pc = "balances.income"
    /\ LET e == edit[w]
       IN  edit' = [edit EXCEPT ![w] =
                       [pc |-> "balances.expense",
                        income |-> GroupBy("accountId", SelectSeq(transactions,
                                       LAMBDA t : /\ t.accountId \in DOMAIN e.accounts
                                                  /\ t.date <= e.targetDate
                                                  /\ t.type = "INCOME"))] @@ e]
    /\ UNCHANGED <<now, accounts, transfers, categories, goals, goalContributions,
                   contrib, creditCards, recurrences, transactions, gen, response,
                   calc, lastId>>

\* const expenseByAccount = await prisma.transaction.groupBy(... type: 'EXPENSE')
BalancesExpense(w) ==
    /\ edit[w].pc = "balances.expense"
    /\ LET e == edit[w]
       IN  edit' = [edit EXCEPT ![w] =
                       [pc |-> "balances.transfersFrom",
                        expense |-> GroupBy("accountId", SelectSeq(transactions,
                                        LAMBDA t : /\ t.accountId \in DOMAIN e.accounts
                                                   /\ t.date <= e.targetDate
                                                   /\ t.type = "EXPENSE"))] @@ e]
    /\ UNCHANGED <<now, accounts, transfers, categories, goals, goalContributions,
                   contrib, creditCards, recurrences, transactions, gen, response,
                   calc, lastId>>

\* const transfersFromByAccount = await prisma.transfer.groupBy({ by: ['fromAccountId'] })
BalancesTransfersFrom(w) ==
    /\ edit[w].pc = "balances.transfersFrom"
    /\ LET e == edit[w]
       IN  edit' = [edit EXCEPT ![w] =
                       [pc |-> "balances.transfersTo",
                        transfersFrom |->
                            GroupBy("fromAccountId", SelectSeq(transfers,
                                LAMBDA t : /\ t.fromAccountId \in DOMAIN e.accounts
                                           /\ t.date <= e.targetDate))] @@ e]
    /\ UNCHANGED <<now, accounts, transfers, categories, goals, goalContributions,
                   contrib, creditCards, recurrences, transactions, gen, response,
                   calc, lastId>>

\* const transfersToByAccount = await prisma.transfer.groupBy({ by: ['toAccountId'] }),
\* the four maps and the answer: for every account of the first call
\* initialBalance + income - expense - transfersFrom + transfersTo.
BalancesTransfersTo(w) ==
    /\ edit[w].pc = "balances.transfersTo"
    /\ LET e == edit[w]
           transfersTo == GroupBy("toAccountId", SelectSeq(transfers,
                              LAMBDA t : /\ t.toAccountId \in DOMAIN e.accounts
                                         /\ t.date <= e.targetDate))
       IN  response' = BalancesAnswer(e.userId, e.endDate,
                           [id \in DOMAIN e.accounts |->
                               e.accounts[id] + MapGet(e.income, id)
                               - MapGet(e.expense, id) - MapGet(e.transfersFrom, id)
                               + MapGet(transfersTo, id)])
    /\ edit' = [edit EXCEPT ![w] = IdleGen]
    /\ UNCHANGED <<now, accounts, transfers, categories, goals, goalContributions,
                   contrib, creditCards, recurrences, transactions, gen, calc, lastId>>

(***************************************************************************)
(* The balances of u1's accounts, queried between the creation of          *)
(* transactions and transfers.                                             *)
(***************************************************************************)
MaxTransfers == 1

BalanceInputs ==
    {[TransactionBase EXCEPT !.type = "INCOME", !.amount = 100000],
     [TransactionBase EXCEPT !.amount = 20000],
     [TransactionBase EXCEPT !.amount = 20000, !.date = <<2024, 1, 16>>],
     [TransactionBase EXCEPT !.type = "INCOME", !.amount = 7000, !.accountId = "a3",
                             !.date = <<2024, 1, 14>>]}

\* Request bodies of POST /api/transfers that pass createTransferSchema.
TransferInputs ==
    {[amount |-> 30000, date |-> <<2024, 1, 15>>, fromAccountId |-> "a1",
      toAccountId |-> "a3"],
     [amount |-> 5000, date |-> <<2024, 1, 16>>, fromAccountId |-> "a3",
      toAccountId |-> "a1"],
     [amount |-> 5000, date |-> <<2024, 1, 15>>, fromAccountId |-> "a1",
      toAccountId |-> "a2"]}

\* The endDate query parameter: absent, or a calendar date.
EndDates == {NoYmd, <<2024, 1, 14>>, <<2024, 1, 15>>, <<2024, 1, 16>>}

NextBalance ==
    \/ AllIdle /\ \E data \in BalanceInputs :
           Len(transactions) < MaxLedger /\ CreateTransaction("w1", "u1", data)
    \/ AllIdle /\ \E data \in TransferInputs :
           Len(transfers) < MaxTransfers /\ CreateTransfer("w1", "u1", data)
    \/ AllIdle /\ \E endDate \in EndDates, accountId \in {NULL, "a1"} :
           GetBalances("w1", "u1", endDate, accountId)
    \/ TransferCreate("w1")
    \/ BalancesIncome("w1")
    \/ BalancesExpense("w1")
    \/ BalancesTransfersFrom("w1")
    \/ BalancesTransfersTo("w1")

SpecBalance == Init /\ [][NextBalance]_vars

\* The number of the calendar day of a ledger date, of a transfer date, and of
\* a cutoff: the endDate asked for, or today.
CutoffDay(endDate) ==
    IF endDate # NoYmd THEN DaysFromCivil(endDate[1], endDate[2], endDate[3])
    ELSE LocalDay(now)

\* The balance the formula of the ledger gives an account at a cutoff day.
LedgerBalance(id, cutoffDay) ==
    accounts[id].initialBalance
    + SumOf(transactions, LAMBDA t : /\ t.accountId = id /\ t.type = "INCOME"
                                     /\ LocalDay(t.date) <= cutoffDay)
    - SumOf(transactions, LAMBDA t : /\ t.accountId = id /\ t.type = "EXPENSE"
                                     /\ LocalDay(t.date) <= cutoffDay)
    - SumOf(transfers, LAMBDA t : t.fromAccountId = id /\ LocalDay(t.date) <= cutoffDay)
    + SumOf(transfers, LAMBDA t : t.toAccountId = id /\ LocalDay(t.date) <= cutoffDay)

\* C12: for every account and every cutoff date the reported balance is
\* initialBalance + INCOME dated <= cutoff - EXPENSE dated <= cutoff
\* - transfers out dated <= cutoff + transfers in dated <= cutoff, whatever
\* the paid flags; initialBalance 1000 with an INCOME of 1000 and an EXPENSE
\* of 200 on or before the cutoff gives 1800.
C12_BalanceAtCutoff ==
    response.op = "balances" =>
        \A id \in DOMAIN response.balances :
            response.balances[id] = LedgerBalance(id, CutoffDay(response.endDate))

\* The same sums with the cutoff the handler computes, the end of the local
\* day of `new Date(endDate)`: for a date-only endDate that is the day before
\* the one asked for.
C12_BalanceAtEndOfParsedDay ==
    response.op = "balances" =>
        \A id \in DOMAIN response.balances :
            response.balances[id] =
                LedgerBalance(id, IF response.endDate # NoYmd
                                  THEN CutoffDay(response.endDate) - 1
                                  ELSE LocalDay(now))

(***************************************************************************)
(* GET /api/credit-cards: the repository holds two handlers for the route, *)
(* the grouped one (src/src/server.ts) and the aggregate one               *)
(* (src/src/routes/creditCards.ts).                                        *)
(***************************************************************************)
\* TransactionService.calculateCurrentInvoiceDueDate
calculateCurrentInvoiceDueDate(today, closingDay, dueDay) ==
    LET todayDay  == getDate(today)
        rolls     == todayDay > closingDay
        nextMonth == getMonth(today) + 1
        invoiceMonth == IF ~rolls THEN getMonth(today)
                        ELSE IF nextMonth > 11 THEN 0 ELSE nextMonth
        invoiceYear  == IF rolls /\ nextMonth > 11 THEN getFullYear(today) + 1
                        ELSE getFullYear(today)
    IN  NewDate(invoiceYear, invoiceMonth, dueDay)

\* The cards prisma.creditCard.findMany({ userId }) returns.
CardsOf(userId) == {id \in DOMAIN creditCards : creditCards[id].userId = userId}

\* usedAmount of the grouped handler: unpaid EXPENSE rows that are not
\* recurring charges, plus unpaid EXPENSE rows that are recurring charges and
\* dated up to the card's current invoice due date.
GroupedUsedAmount(cardId, today) ==
    LET card == creditCards[cardId]
        invoiceDueDate == calculateCurrentInvoiceDueDate(today, card.closingDay,
                                                         card.dueDay)
        nonRecurring == SumOf(transactions, LAMBDA t : /\ t.creditCardId = cardId
                                                       /\ ~t.paid
                                                       /\ t.type = "EXPENSE"
                                                       /\ ~t.isRecurringCharge)
        recurring    == SumOf(transactions, LAMBDA t : /\ t.creditCardId = cardId
                                                       /\ ~t.paid
                                                       /\ t.type = "EXPENSE"
                                                       /\ t.isRecurringCharge
                                                       /\ t.date <= invoiceDueDate)
    IN  nonRecurring + recurring

\* usedAmount of the aggregate handler: every unpaid EXPENSE row of the card.
AggregateUsedAmount(cardId) ==
    SumOf(transactions, LAMBDA t : /\ t.creditCardId = cardId
                                   /\ ~t.paid
                                   /\ t.type = "EXPENSE")

\* res.json(cardsWithUsage): the usedAmount of every card listed.
CreditCardsAnswer(op, userId, usedAmount) ==
    [op |-> op, status |-> 200, error |-> NULL, userId |-> userId,
     usedAmount |-> usedAmount]

\* GET /api/credit-cards of src/src/server.ts, up to the await that follows
\* creditCard.findMany: without a card the answer is the empty list, else the
\* handler computes the invoice due date of every card as of `new Date()`.
GetCreditCards(w, userId) ==
    /\ edit[w].pc = "idle"
    /\ IF CardsOf(userId) = {}
       THEN /\ response' = CreditCardsAnswer("creditCards", userId, <<>>)
            /\ UNCHANGED edit
       ELSE /\ edit' = [edit EXCEPT ![w] =
                          [pc |-> "creditCards.groupBy", op |-> "creditCards",
                           userId |-> userId,
                           invoiceDueDates |->
                               [id \in CardsOf(userId) |->
                                   calculateCurrentInvoiceDueDate(
                                       now, creditCards[id].closingDay,
                                       creditCards[id].dueDay)]]]
            /\ UNCHANGED response
    /\ UNCHANGED <<now, accounts, transfers, categories, goals, goalContributions,
                   contrib, creditCards, recurrences, transactions, gen, calc, lastId>>

\* const nonRecurringUsage = await prisma.transaction.groupBy({ by: ['creditCardId'],
\* where: { creditCardId: { in: cardIds }, paid: false, type: 'EXPENSE',
\* isRecurringCharge: false } })
CreditCardsGroupBy(w) ==
    /\ edit[w].pc = "creditCards.groupBy"
    /\ LET e == edit[w]
       IN  edit' = [edit EXCEPT ![w] =
                       [pc |-> "creditCards.findMany",
                        nonRecurring |->
                            GroupBy("creditCardId", SelectSeq(transactions,
                                LAMBDA t : /\ t.creditCardId \in DOMAIN e.invoiceDueDates
                                           /\ ~t.paid
                                           /\ t.type = "EXPENSE"
                                           /\ ~t.isRecurringCharge))] @@ e]
    /\ UNCHANGED <<now, accounts, transfers, categories, goals, goalContributions,
                   contrib, creditCards, recurrences, transactions, gen, response,
                   calc, lastId>>

\* const recurringTransactions = await prisma.transaction.findMany(...
\* isRecurringCharge: true), of which the handler counts the rows dated up to
\* the invoice due date of their card, and the answer.
CreditCardsFindMany(w) ==
    /\ edit[w].pc = "creditCards.findMany"
    /\ LET e == edit[w]
           recurringTransactions ==
               SelectSeq(transactions,
                         LAMBDA t : /\ t.creditCardId \in DOMAIN e.invoiceDueDates
                                    /\ ~t.paid
                                    /\ t.type = "EXPENSE"
                                    /\ t.isRecurringCharge)
           recurring ==
               GroupBy("creditCardId", SelectSeq(recurringTransactions,
                       LAMBDA t : t.date <= e.invoiceDueDates[t.creditCardId]))
       IN  response' = CreditCardsAnswer(e.op, e.userId,
                           [id \in DOMAIN e.invoiceDueDates |->
                               MapGet(e.nonRecurring, id) + MapGet(recurring, id)])
    /\ edit' = [edit EXCEPT ![w] = IdleGen]
    /\ UNCHANGED <<now, accounts, transfers, categories, goals, goalContributions,
                   contrib, creditCards, recurrences, transactions, gen, calc, lastId>>

\* GET /api/credit-cards of src/src/routes/creditCards.ts, up to the await
\* that follows creditCard.findMany: Promise.all sends one aggregate per card,
\* which the store serves one by one in any order.
GetCreditCardsAggregate(w, userId) ==
    /\ edit[w].pc = "idle"
    /\ IF CardsOf(userId) = {}
       THEN /\ response' = CreditCardsAnswer("creditCardsAggregate", userId, <<>>)
            /\ UNCHANGED edit
       ELSE /\ edit' = [edit EXCEPT ![w] =
                          [pc |-> "creditCards.aggregate",
                           op |-> "creditCardsAggregate", userId |-> userId,
                           cardIds |-> CardsOf(userId), usedAmount |-> <<>>]]
            /\ UNCHANGED response
    /\ UNCHANGED <<now, accounts, transfers, categories, goals, goalContributions,
                   contrib, creditCards, recurrences, transactions, gen, calc, lastId>>

\* await prisma.transaction.aggregate({ where: { creditCardId: card.id,
\* paid: false, type: 'EXPENSE' }, _sum: { amount: true } }) of one card; the
\* answer follows the last of them.
CreditCardsAggregate(w) ==
    /\ edit[w].pc = "creditCards.aggregate"
    /\ LET e == edit[w]
       IN  \E id \in e.cardIds \ DOMAIN e.usedAmount :
               LET usedAmount == (id :> AggregateUsedAmount(id)) @@ e.usedAmount
               IN  IF DOMAIN usedAmount = e.cardIds
                   THEN /\ response' = CreditCardsAnswer(e.op, e.userId, usedAmount)
                        /\ edit' = [edit EXCEPT ![w] = IdleGen]
                   ELSE /\ edit' = [edit EXCEPT ![w].usedAmount = usedAmount]
                        /\ UNCHANGED response
    /\ UNCHANGED <<now, accounts, transfers, categories, goals, goalContributions,
                   contrib, creditCards, recurrences, transactions, gen, calc, lastId>>

\* Card charges of u1 on k1 (closing on the 5th, due on the 10th), created on
\* 2024-01-15: the current invoice is due on 2024-02-10.
CardInputs ==
    {[TransactionBase EXCEPT !.creditCardId = "k1", !.date = <<2024, 1, 20>>],
     [TransactionBase EXCEPT !.creditCardId = "k1", !.date = <<2024, 1, 3>>,
                             !.isRecurringCharge = TRUE, !.amount = 3000],
     [TransactionBase EXCEPT !.creditCardId = "k1", !.date = <<2024, 2, 20>>,
                             !.isRecurringCharge = TRUE, !.amount = 4000],
     [TransactionBase EXCEPT !.creditCardId = "k1", !.date = <<2024, 1, 3>>,
                             !.isRecurringCharge = TRUE, !.type = "INCOME",
                             !.amount = 500],
     [TransactionBase EXCEPT !.creditCardId = "k1", !.type = "INCOME",
                             !.amount = 700],
     TransactionBase}

NextCards ==
    \/ AllIdle /\ \E data \in CardInputs :
           Len(transactions) < MaxLedger /\ CreateTransaction("w1", "u1", data)
    \/ AllIdle /\ \E id \in 1..MaxLedger :
           UpdateTransactionPaidStatus("w1", "u1", id, TRUE, NoYmd, NULL)
    \/ AllIdle /\ GetCreditCards("w1", "u1")
    \/ AllIdle /\ GetCreditCardsAggregate("w1", "u1")
    \/ TransactionCreate("w1")
    \/ TransactionUpdate("w1")
    \/ CreditCardsGroupBy("w1")
    \/ CreditCardsFindMany("w1")
    \/ CreditCardsAggregate("w1")

SpecCards == Init /\ [][NextCards]_vars

\* The used amount of the claim.
ClaimedUsedAmount(cardId, today) ==
    LET card == creditCards[cardId]
        currentInvoiceDate == calculateCurrentInvoiceDueDate(today, card.closingDay,
                                                             card.dueDay)
    IN  SumOf(transactions, LAMBDA t : /\ t.creditCardId = cardId
                                       /\ ~t.paid
                                       /\ t.type = "EXPENSE"
                                       /\ ~t.isRecurringCharge)
        + SumOf(transactions, LAMBDA t : /\ t.creditCardId = cardId
                                         /\ ~t.paid
                                         /\ t.isRecurringCharge
                                         /\ t.date <= currentInvoiceDate)

\* C13: the usedAmount reported for a card is the sum of its unpaid EXPENSE
\* transactions that are not recurring charges, whatever their date, plus
\* the sum of its unpaid recurring charges dated up to
\* currentInvoiceDate(today, closingDay, dueDay); later recurring charges and
\* paid transactions contribute nothing.
C13_UsedAmount ==
    response.op \in {"creditCards", "creditCardsAggregate"} =>
        \A id \in DOMAIN response.usedAmount :
            response.usedAmount[id] = ClaimedUsedAmount(id, now)

\* The grouped handler agrees with the claim on EXPENSE rows.
C13_GroupedUsedAmountOfExpenses ==
    (/\ response.op = "creditCards"
     /\ \A i \in 1..Len(transactions) :
            transactions[i].isRecurringCharge => transactions[i].type = "EXPENSE")
    => \A id \in DOMAIN response.usedAmount :
           response.usedAmount[id] = ClaimedUsedAmount(id, now)

(***************************************************************************)
(* Transactions created while the clock moves from 2024-01-15 00:00 local  *)
(* time to 22:00 of that day (2024-01-16 in UTC) and to 2024-02-10 10:00.  *)
(***************************************************************************)
StoreClocks == <<NowStart, NowStart + 22, NewDate(2024, 1, 10) + 10>>

Tick ==
    /\ \E k \in 1..(Len(StoreClocks) - 1) :
           now = StoreClocks[k] /\ now' = StoreClocks[k + 1]
    /\ UNCHANGED <<accounts, transfers, categories, edit, goals, goalContributions, contrib, creditCards, recurrences,
                   transactions, gen, response, calc, lastId>>

AutoPayInputs ==
    {TransactionBase,
     [TransactionBase EXCEPT !.date = <<2024, 1, 14>>],
     [TransactionBase EXCEPT !.date = <<2024, 1, 16>>],
     [TransactionBase EXCEPT !.date = <<2024, 2, 10>>],
     [TransactionBase EXCEPT !.type = "INCOME"],
     [TransactionBase EXCEPT !.type = "INCOME", !.date = <<2024, 2, 10>>],
     [TransactionBase EXCEPT !.creditCardId = "k1", !.date = <<2024, 1, 20>>],
     [TransactionBase EXCEPT !.creditCardId = "k1", !.date = <<2024, 1, 3>>]}

NextAutoPay ==
    \/ AllIdle /\ \E data \in AutoPayInputs :
           Len(transactions) < MaxLedger /\ CreateTransaction("w1", "u1", data)
    \/ AllIdle /\ Tick
    \/ TransactionCreate("w1")

SpecAutoPay == Init /\ [][NextAutoPay]_vars

\* The row a step has just stored.
Created == transactions'[Len(transactions')]

\* C14: a transaction created by createTransaction is stored paid, with a
\* paidAt, exactly when it has no card, is an EXPENSE and its ledger date is
\* the current calendar day; otherwise it is stored unpaid, without paidAt.
C14_AutoPaidExactlyToday ==
    [][Len(transactions') = Len(transactions) + 1
       => /\ Created.paid <=> (/\ Created.creditCardId = NULL
                               /\ Created.type = "EXPENSE"
                               /\ LocalDay(Created.date) = LocalDay(now))
          /\ Created.paid => Created.paidAt # NONE
          /\ ~Created.paid => Created.paidAt = NONE]_vars

\* An expense without card was created at 22:00 local time, when the UTC day
\* is already the next one, and stored paid; a card charge whose invoice is
\* due today was stored unpaid.
C14_PaidLateInTheEvening ==
    /\ now = StoreClocks[2]
    /\ \E i \in 1..Len(transactions) :
           /\ transactions[i].paid
           /\ transactions[i].paidAt = now
           /\ getUTCDate(now) # getDate(now)

(***************************************************************************)
(* Deleting, updating and paying under SpecStore.                          *)
(***************************************************************************)
\* C15: deleteTransaction answers NOT_FOUND when no transaction has the id
\* and the distinct FORBIDDEN when the transaction is another user's, and
\* removes nothing in both cases; the owner's call goes on to its delete,
\* which removes exactly that transaction and keeps every other one.
C15_DeleteOutcomes ==
    [][\A w \in Workers :
          /\ \A userId \in Users, id \in RequestIds :
                DeleteTransaction(w, userId, id) =>
                    LET owners == {transactions[i].userId :
                                      i \in {j \in 1..Len(transactions) :
                                                transactions[j].id = id}}
                    IN  /\ transactions' = transactions
                        /\ owners = {} =>
                              /\ response'.error = "NOT_FOUND"
                              /\ edit'[w].pc = "idle"
                        /\ (owners # {} /\ userId \notin owners) =>
                              /\ response'.error = "FORBIDDEN"
                              /\ edit'[w].pc = "idle"
                        /\ userId \in owners =>
                              /\ edit'[w].pc = "transaction.delete"
                              /\ edit'[w].id = id
          /\ (TransactionDelete(w) /\ TransactionById(edit[w].id) # {}) =>
                /\ response'.status = 204
                /\ Len(transactions') = Len(transactions) - 1
                /\ transactions' =
                       SelectSeq(transactions, LAMBDA t : t.id # edit[w].id)]_vars

\* A delete was refused as FORBIDDEN while both users hold a transaction.
C15_ForbiddenWithBothOwners ==
    /\ response.op = "deleteTransaction"
    /\ response.error = "FORBIDDEN"
    /\ \A userId \in Users : OwnedBy(userId) # {}

\* C16: updateTransaction and updateTransactionPaidStatus answer
\* "Transaction not found" and write nothing when the id does not exist or
\* the transaction is not the acting user's; every step of theirs that ends
\* the call with a failure leaves the transactions as they were.
C16_NotFoundBeforeAnyWrite ==
    [][/\ \A id \in RequestIds :
              LET owned == \E i \in 1..Len(transactions) :
                               /\ transactions[i].id = id
                               /\ transactions[i].userId = "u1"
                  Outcome == /\ transactions' = transactions
                             /\ ~owned => /\ response'.error = "Transaction not found"
                                          /\ edit' = edit
              IN  /\ \A data \in TransactionPatches :
                         UpdateTransaction("w1", "u1", id, data) => Outcome
                  /\ \A p \in PaidInputs :
                         UpdateTransactionPaidStatus("w1", "u1", id, p[1], p[2], p[3])
                             => Outcome
       /\ (/\ response' # response
           /\ response'.op \in {"updateTransaction", "updateTransactionPaidStatus"}
           /\ response'.status # 200)
             => transactions' = transactions]_vars

\* An update was answered "Transaction not found" while the only transactions
\* stored are the other user's.
C16_NotFoundOnForeignRows ==
    /\ response.op \in {"updateTransaction", "updateTransactionPaidStatus"}
    /\ response.error = "Transaction not found"
    /\ transactions # <<>>
    /\ OwnedBy("u1") = {}

\* C17: updateTransactionPaidStatus sets the ledger date to paidAt exactly
\* when paid is true and a paidAt is given, and leaves it unchanged otherwise;
\* paidAt is null whenever paid is false; accountId changes only to a supplied
\* accountId that the acting user owns.  The steps of the call before its
\* update write nothing; p is the body <<paid, paidAt, accountId>> of the call
\* whose update the step is.
C17_PaidStatusEffect ==
    [][/\ \A id \in RequestIds, p \in PaidInputs :
              UpdateTransactionPaidStatus("w1", "u1", id, p[1], p[2], p[3])
                  => transactions' = transactions
       /\ (PaidFindAccount("w1") => transactions' = transactions)
       /\ (/\ TransactionUpdate("w1")
           /\ edit["w1"].op = "updateTransactionPaidStatus") =>
              LET id == edit["w1"].id
                  p  == edit["w1"].request
              IN  \A i \in 1..Len(transactions) :
                      /\ Len(transactions') = Len(transactions)
                      /\ transactions'[i].accountId # transactions[i].accountId =>
                            /\ p[3] \in DOMAIN accounts
                            /\ accounts[p[3]].userId = edit["w1"].userId
                            /\ transactions'[i].accountId = p[3]
                      /\ (transactions[i].id = id /\ response'.status = 200) =>
                            /\ transactions'[i].paid = p[1]
                            /\ transactions'[i].date =
                                   IF p[1] /\ p[2] # NoYmd
                                   THEN ParseDate(p[2])
                                   ELSE transactions[i].date
                            /\ ~p[1] => transactions'[i].paidAt = NONE
                      /\ transactions[i].id # id =>
                            transactions'[i] = transactions[i]]_vars

\* A transaction was paid with the explicit paidAt 2024-01-20 from the user's
\* other account: its ledger date is now that instant.
C17_PaidWithExplicitDate ==
    /\ response.op = "updateTransactionPaidStatus"
    /\ response.status = 200
    /\ \E i \in 1..Len(transactions) :
           /\ transactions[i].paid
           /\ transactions[i].paidAt = ParseDate(<<2024, 1, 20>>)
           /\ transactions[i].date = ParseDate(<<2024, 1, 20>>)
           /\ transactions[i].accountId = "a3"

(***************************************************************************)
(* Pause and resume, one request served at a time (SpecSerial).            *)
(***************************************************************************)
\* A step of a /generate request.
GenerateStep ==
    \/ GenerateStart("w1", "u1")
    \/ GenerateFindFirst("w1")
    \/ GenerateCreate("w1")
    \/ GenerateUpdate("w1")

\* C18: while a recurrence is paused no step of a /generate run stores a
\* transaction for it or changes its nextDueDate, however many runs there
\* are; and the pause request, in its two steps, changes nothing but isActive
\* of that recurrence.
C18_PausedIsNotExtended ==
    [][/\ GenerateStep =>
              \A id \in 1..Len(recurrences) :
                  ~recurrences[id].isActive =>
                      /\ Len(recurrences') = Len(recurrences)
                      /\ TransactionsOf(id)' = TransactionsOf(id)
                      /\ recurrences'[id].nextDueDate = recurrences[id].nextDueDate
       /\ \A id \in 1..MaxRecurrences :
              (\/ PauseRecurring("w1", "u1", id)
               \/ /\ RecurrenceUpdate("w1")
                  /\ edit["w1"].op = "pauseRecurring"
                  /\ edit["w1"].id = id) =>
                  /\ transactions' = transactions
                  /\ Len(recurrences') = Len(recurrences)
                  /\ \A j \in 1..Len(recurrences) :
                         recurrences'[j] =
                             IF j = id /\ edit["w1"].pc = "update"
                             THEN [recurrences[j] EXCEPT !.isActive = FALSE]
                             ELSE recurrences[j]]_vars

\* A /generate run has just answered, having created nothing, while a paused
\* recurrence of the user is due within the run's twelve months and not ended.
C18_RunOverPausedDueRecurrence ==
    /\ response.op = "generate"
    /\ response.clock = now
    /\ response.generated = 0
    /\ AllIdle
    /\ \E id \in 1..Len(recurrences) :
           /\ ~recurrences[id].isActive
           /\ recurrences[id].nextDueDate # NONE
           /\ recurrences[id].nextDueDate <= MaxFutureDate(now)
           /\ (recurrences[id].endDate = NONE \/ recurrences[id].endDate >= now)

(***************************************************************************)
(* Resuming after fourteen months: the recurrence routes, one request at a *)
(* time, with the clock going from 2024-01-15 to 2025-03-20 10:00.         *)
(***************************************************************************)
ResumeClock == NewDate(2025, 2, 20) + 10

Elapse ==
    /\ now = NowStart
    /\ now' = ResumeClock
    /\ UNCHANGED <<accounts, transfers, categories, edit, goals, goalContributions, contrib, creditCards, recurrences,
                   transactions, gen, response, calc, lastId>>

NextResume ==
    \/ AllIdle /\ \E data \in RecurringInputs : CreateRecurring("u1", data)
    \/ AllIdle /\ \E id \in 1..MaxRecurrences : PauseRecurring("w1", "u1", id)
    \/ AllIdle /\ \E id \in 1..MaxRecurrences : ResumeRecurring("w1", "u1", id)
    \/ RecurrenceUpdate("w1")
    \/ AllIdle /\ GenerateStart("w1", "u1")
    \/ GenerateFindFirst("w1")
    \/ GenerateCreate("w1")
    \/ GenerateUpdate("w1")
    \/ AllIdle /\ Elapse

SpecResume == Init /\ [][NextResume]_vars

\* The number of occurrences a resume is followed over.
MaxSkipped == 16

\* The dates from, nextOccurrence(from), ... : the first n + 1 of them.
RECURSIVE Occurrences(_, _, _)
Occurrences(recurrence, from, n) ==
    IF n = 0 THEN <<from>>
    ELSE <<from>> \o Occurrences(recurrence, NextOccurrence(recurrence, from), n - 1)

\* C19: a resume sets isActive and stores as nextDueDate the first date of
\* the sequence stored nextDueDate (or startDate), nextOccurrence(...), ...
\* that is not before the present time; the /generate run served right after
\* the resume stores no transaction dated before the time of the resume.
C19_ResumeFastForwards ==
    [][/\ \A id \in 1..Len(recurrences) :
              (/\ RecurrenceUpdate("w1")
               /\ edit["w1"].op = "resumeRecurring"
               /\ edit["w1"].id = id
               /\ response'.status = 200) =>
                  LET from == IF recurrences[id].nextDueDate # NONE
                              THEN recurrences[id].nextDueDate
                              ELSE recurrences[id].startDate
                      sequence == Occurrences(recurrences[id], from, MaxSkipped)
                  IN  /\ recurrences'[id].isActive
                      /\ \E k \in 1..Len(sequence) :
                             /\ recurrences'[id].nextDueDate = sequence[k]
                             /\ sequence[k] >= now
                             /\ \A j \in 1..(k - 1) : sequence[j] < now
       /\ (/\ response.op = "resumeRecurring"
           /\ response.status = 200
           /\ response.clock = now
           /\ GenerateCreate("w1")) =>
              /\ Len(transactions') = Len(transactions) + 1
              /\ Created.recurrenceId = response.id => Created.date >= now]_vars

\* A recurrence paused in 2024 was resumed on 2025-03-20: its nextDueDate
\* moved forward to a date not before that day, and the /generate run after
\* the resume has stored a transaction of it.
C19_ResumedAfterMissedOccurrences ==
    /\ now = ResumeClock
    /\ response.op = "resumeRecurring"
    /\ response.status = 200
    /\ response.clock = now
    /\ recurrences[response.id].isActive
    /\ recurrences[response.id].nextDueDate >= now
    /\ \E i \in 1..Len(transactions) :
           /\ transactions[i].recurrenceId = response.id
           /\ transactions[i].date >= now
    /\ \E j \in 1..Len(transactions) :
           /\ transactions[j].recurrenceId = response.id
           /\ transactions[j].date < now
    /\ gen["w1"].pc # "idle"
    /\ gen["w1"].generated > 0

(***************************************************************************)
(* /generate over a store that holds a recurrence lacking data.  The       *)
(* columns amount, accountId and categoryId of table recurrences are       *)
(* nullable (ALTER TABLE "recurrences" ADD COLUMN ...), and the handler    *)
(* guards against rows without them.  The store starts with one such row   *)
(* of the user and one complete recurrence due from 2024-01-10, in either  *)
(* order.                                                                  *)
(***************************************************************************)
CompleteRecurrence(id) ==
    [id |-> id, type |-> "EXPENSE", interval |-> "MONTH", intervalCount |-> 1,
     startDate |-> parseDateToBrazilTimezone(<<2024, 1, 10>>), endDate |-> NONE,
     totalInstallments |-> NONE,
     nextDueDate |-> parseDateToBrazilTimezone(<<2024, 1, 10>>),
     description |-> "Aluguel", amount |-> 5000, isActive |-> TRUE,
     accountId |-> "a1", categoryId |-> "c1", creditCardId |-> NULL,
     userId |-> "u1", deleted |-> FALSE]

DefectiveRecurrences(id) ==
    {[CompleteRecurrence(id) EXCEPT !.amount = NONE],
     [CompleteRecurrence(id) EXCEPT !.accountId = NULL],
     [CompleteRecurrence(id) EXCEPT !.categoryId = NULL]}

InitSkip ==
    /\ now = NowStart
    /\ accounts = InitAccounts
    /\ transfers = <<>>
    /\ categories = InitCategories
    /\ goals = <<>>
    /\ goalContributions = <<>>
    /\ contrib = [w \in Workers |-> IdleGen]
    /\ edit = [w \in Workers |-> IdleGen]
    /\ creditCards = InitCreditCards
    /\ recurrences \in
           {<<d, CompleteRecurrence(2)>> : d \in DefectiveRecurrences(1)}
             \cup {<<CompleteRecurrence(1), d>> : d \in DefectiveRecurrences(2)}
    /\ transactions = <<>>
    /\ gen = [w \in Workers |-> IdleGen]
    /\ lastId = NoIds
    /\ response = NoResponse
    /\ calc = NoCalc

NextSkip ==
    \/ AllIdle /\ GenerateStart("w1", "u1")
    \/ GenerateFindFirst("w1")
    \/ GenerateCreate("w1")
    \/ GenerateUpdate("w1")
    \/ AllIdle /\ Advance

SpecSkip == InitSkip /\ [][NextSkip]_vars

\* The recurrence has no amount, no account or no category.
Incomplete(recurrence) ==
    \/ recurrence.amount = NONE
    \/ recurrence.accountId = NULL
    \/ recurrence.categoryId = NULL

\* Among rows, the recurrence has a transaction on its startDate and, after
\* each of its transactions, one on the next occurrence unless that is past
\* the horizon of a run at the given clock; and nextDueDate is past it.
FullyExtended(recurrence, rows, clock) ==
    LET dates == {rows[i].date : i \in {j \in 1..Len(rows) :
                                           rows[j].recurrenceId = recurrence.id}}
    IN  /\ recurrence.nextDueDate > HorizonEnd(recurrence, clock)
        /\ recurrence.startDate \in dates
        /\ \A d \in dates :
               NextOccurrence(recurrence, d) <= HorizonEnd(recurrence, clock) =>
                   NextOccurrence(recurrence, d) \in dates

\* C20: no step of a /generate run stores a transaction for a recurrence
\* lacking amount, accountId or categoryId or changes its nextDueDate, and
\* when the run has answered every complete recurrence of the user that was
\* eligible is extended up to the run's horizon, wherever the incomplete one
\* stood in the batch.
C20_SkipAndContinue ==
    [][GenerateStep =>
          /\ Len(recurrences') = Len(recurrences)
          /\ \A id \in 1..Len(recurrences) :
                 Incomplete(recurrences[id]) =>
                     /\ TransactionsOf(id)' = TransactionsOf(id)
                     /\ recurrences'[id] = recurrences[id]
          /\ (response'.op = "generate" /\ gen'["w1"].pc = "idle") =>
                 \A id \in 1..Len(recurrences) :
                     ~Incomplete(recurrences[id]) =>
                         FullyExtended(recurrences'[id], transactions', now)]_vars

\* A run has answered after creating transactions, the incomplete recurrence
\* standing first in its batch, untouched.
C20_ExtendedPastIncomplete ==
    /\ response.op = "generate"
    /\ response.generated > 0
    /\ AllIdle
    /\ Incomplete(recurrences[1])
    /\ recurrences[1].nextDueDate <= MaxFutureDate(now)
    /\ TransactionsOf(1) = <<>>
    /\ TransactionsOf(2) # <<>>

(***************************************************************************)
(* src/src/services/transactionService.ts: createRecurringTransactions     *)
(* behind POST /api/transactions/recurring, and the three create           *)
(* operations of the service together.                                     *)
(***************************************************************************)
\* prisma.recurrence.create({ type: 'RECURRING', interval, intervalCount,
\*                            startDate: data.date, endDate })
ServiceRecurrence(id, data) ==
    [id |-> id, type |-> "RECURRING", interval |-> data.interval,
     intervalCount |-> data.intervalCount,
     startDate |-> ParseDate(data.date), endDate |-> ParseGiven(data.endDate),
     totalInstallments |-> NONE, nextDueDate |-> NONE,
     description |-> NULL, amount |-> NONE, isActive |-> TRUE,
     accountId |-> NULL, categoryId |-> NULL, creditCardId |-> NULL,
     userId |-> NULL, deleted |-> FALSE]

\* The data createRecurringTransactions hands to createTransaction:
\* { ...data, recurrenceId: recurrence.id }; the body of the route holds no
\* purchaseDate and no installment fields.
RecurringData(data, recurrenceId) ==
    [recurrenceId |-> recurrenceId, purchaseDate |-> NoYmd,
     installmentNumber |-> NONE, totalInstallments |-> NONE] @@ data

\* TransactionService.createRecurringTransactions behind
\* POST /api/transactions/recurring, up to the await that follows its first
\* write: the recurrence row is stored, then createTransaction either awaits
\* creditCard.findUnique (the body names a card) or transaction.create.
CreateRecurringTransactions(w, userId, data) ==
    LET id      == Len(recurrences) + 1
        request == RecurringData(data, id)
    IN  /\ edit[w].pc = "idle"
        /\ recurrences' = Append(recurrences, ServiceRecurrence(id, data))
        /\ edit' = [edit EXCEPT ![w] =
                      IF Truthy(data.creditCardId)
                      THEN [pc |-> "findUnique", op |-> "createRecurringTransactions",
                            userId |-> userId, request |-> request, written |-> 1]
                      ELSE AwaitCreate("createRecurringTransactions", userId, request,
                                       CreateData(userId, request, NULL), 1)]
        /\ UNCHANGED <<now, accounts, transfers, categories, goals, goalContributions,
                       contrib, creditCards, transactions, gen, response, calc, lastId>>

\* const creditCard = await prisma.creditCard.findUnique(...) of the
\* createTransaction that createRecurringTransactions calls; without the card
\* it throws 'Credit card not found' and the recurrence stays stored.
RecurringFindUnique(w) ==
    /\ edit[w].pc = "findUnique"
    /\ LET e == edit[w]
       IN  IF e.request.creditCardId \notin DOMAIN creditCards
           THEN /\ response' = [Failure(e.op, e.userId, e.request,
                                        "Credit card not found")
                                    EXCEPT !.written = e.written]
                /\ edit' = [edit EXCEPT ![w] = IdleGen]
           ELSE /\ edit' = [edit EXCEPT ![w] =
                              AwaitCreate(e.op, e.userId, e.request,
                                          CreateData(e.userId, e.request,
                                                     creditCards[e.request.creditCardId]),
                                          e.written)]
                /\ UNCHANGED response
    /\ UNCHANGED <<now, accounts, transfers, categories, goals, goalContributions,
                   contrib, creditCards, recurrences, transactions, gen, calc, lastId>>

\* Request bodies of POST /api/transactions/recurring.
ServiceRecurringBase ==
    [type |-> "EXPENSE", amount |-> 5000, date |-> <<2024, 1, 15>>,
     description |-> "Academia", accountId |-> "a1", categoryId |-> "c1",
     creditCardId |-> NULL, interval |-> "MONTH", intervalCount |-> 1,
     endDate |-> NoYmd, isRecurringCharge |-> FALSE]

ServiceRecurringInputs ==
    {ServiceRecurringBase,
     [ServiceRecurringBase EXCEPT !.creditCardId = "k1", !.isRecurringCharge = TRUE],
     [ServiceRecurringBase EXCEPT !.creditCardId = "k9"],
     [ServiceRecurringBase EXCEPT !.accountId = "a9"],
     [ServiceRecurringBase EXCEPT !.interval = "WEEK", !.endDate = <<2024, 6, 30>>]}

NextCreate ==
    \/ AllIdle /\ \E data \in TransactionInputs :
           Len(transactions) < MaxLedger /\ CreateTransaction("w1", "u1", data)
    \/ AllIdle /\ \E data \in InstallmentInputs, totalInstallments \in 2..MaxInstallments :
           /\ Len(transactions) < MaxLedger
           /\ Len(recurrences) < MaxRecurrences
           /\ CreateInstallments("w1", "u1", data, totalInstallments)
    \/ AllIdle /\ \E data \in ServiceRecurringInputs :
           /\ Len(transactions) < MaxLedger
           /\ Len(recurrences) < MaxRecurrences
           /\ CreateRecurringTransactions("w1", "u1", data)
    \/ TransactionCreate("w1")
    \/ InstallmentRecurrenceCreate("w1")
    \/ InstallmentCreate("w1")
    \/ RecurringFindUnique("w1")
    \/ DeleteCreditCard("u1", "k1")

SpecCreate == Init /\ [][NextCreate]_vars

\* C21: a create operation of the service (single, installments, recurring)
\* that fails its card lookup, the check the invoice assignment depends on,
\* leaves the store as it was: no transaction and no recurrence is written
\* by the request that is answered 'Credit card not found'.
C21_FailedCheckWritesNothing ==
    (/\ response.op \in {"createTransaction", "createInstallments",
                         "createRecurringTransactions"}
     /\ response.status = 500
     /\ response.error = "Credit card not found")
       => response.written = 0

(***************************************************************************)
(* /generate interrupted.  The handler's writes are not in a database      *)
(* transaction: when the process stops (Interrupt), or a store call throws *)
(* and the catch answers 500 (the create of a recurrence whose card was    *)
(* deleted), whatever was written stays.  One request at a time; a PUT     *)
(* with creditCardId '' takes the deleted card off the recurrence.         *)
(***************************************************************************)
\* The request of worker w ends where it is.
Interrupt(w) ==
    /\ gen[w].pc # "idle"
    /\ gen' = [gen EXCEPT ![w] = IdleGen]
    /\ response' = [op |-> "generateInterrupted", status |-> 500,
                    userId |-> gen[w].userId, clock |-> gen[w].clock]
    /\ UNCHANGED <<now, accounts, transfers, categories, edit, goals, goalContributions, contrib, creditCards, recurrences,
                   transactions, calc, lastId>>

NextInterrupted ==
    \/ AllIdle /\ \E data \in SerialInputs : CreateRecurring("u1", data)
    \/ AllIdle /\ DeleteCreditCard("u1", "k1")
    \/ AllIdle /\ \E id \in 1..MaxRecurrences :
                     UpdateRecurring("w1", "u1", id, [NoPatch EXCEPT !.creditCardId = ""])
    \/ RecurrenceUpdate("w1")
    \/ AllIdle /\ GenerateStart("w1", "u1")
    \/ GenerateFindFirst("w1")
    \/ GenerateCreate("w1")
    \/ GenerateUpdate("w1")
    \/ Interrupt("w1")
    \/ AllIdle /\ Advance

SpecInterrupted == Init /\ [][NextInterrupted]_vars

\* The dates of the transactions of a recurrence.
DatesOf(id) ==
    {transactions[i].date : i \in {j \in 1..Len(transactions) :
                                      transactions[j].recurrenceId = id}}

\* C22: wherever a /generate run is interrupted, no recurrence's nextDueDate
\* is past an occurrence that has no transaction; and once a later run has
\* come to its end, every recurrence it extends (not ended at that time) has
\* every occurrence up to the run's horizon, each occurrence exactly once.
C22_InterruptionLosesNoOccurrence ==
    \A id \in 1..Len(recurrences) :
        LET recurrence == recurrences[id]
        IN  /\ recurrence.startDate < recurrence.nextDueDate =>
                   recurrence.startDate \in DatesOf(id)
            /\ \A d \in DatesOf(id) :
                   NextOccurrence(recurrence, d) < recurrence.nextDueDate =>
                       NextOccurrence(recurrence, d) \in DatesOf(id)
            /\ Cardinality(DatesOf(id)) = Len(TransactionsOf(id))
            /\ (/\ response.op = "generate"
                /\ response.status = 200
                /\ response.clock = now
                /\ AllIdle
                /\ (recurrence.endDate = NONE \/ recurrence.endDate >= now))
                  => FullyExtended(recurrence, transactions, now)

\* A run has come to its end having created one transaction, on 2024-03-17,
\* where the recurrence of 2024-01-31 lacks two occurrences up to the horizon:
\* the other one was stored by a run that was interrupted before it advanced
\* nextDueDate.
C22_CompletedAfterInterruption ==
    /\ response.op = "generate"
    /\ response.status = 200
    /\ response.clock = now
    /\ now = ClockAt(2)
    /\ AllIdle
    /\ response.generated = 1
    /\ Len(recurrences) = 1
    /\ recurrences[1].endDate = NONE
    /\ FullyExtended(recurrences[1], transactions, now)

(***************************************************************************)
(* src/src/routes/summary.ts, the goals router: goals and contributions.   *)
(* Ids are never used again: a deleted goal stays in the sequence as a row *)
(* with deleted = TRUE, which no query matches.  The contribution handler  *)
(* awaits the store three times: findFirst, the $transaction of            *)
(* goalContribution.create and goal.update (one atomic step), and the      *)
(* update of the status.                                                   *)
(***************************************************************************)
MaxGoals == 1
MaxContributions == 2

\* prisma.goal.findFirst({ where: { id, userId } })
FindGoal(id, userId) ==
    /\ id \in 1..Len(goals)
    /\ ~goals[id].deleted
    /\ goals[id].userId = userId

GoalAnswer(op, status, error, id) ==
    [op |-> op, status |-> status, error |-> error, id |-> id]

\* A request of the goals router in flight before the store call pc.
AwaitGoal(pc, op, userId, id, data) ==
    [pc |-> pc, op |-> op, userId |-> userId, id |-> id, data |-> data]

\* The foreign key goals.accountId of a row.
GoalAccountExists(goal) == goal.accountId # NULL => goal.accountId \in DOMAIN accounts

\* await prisma.goal.create({ data: { ..., currentAmount: 0, status: 'ACTIVE',
\* accountId: data.accountId || null } }) and the answer; the create throws
\* when the account is not stored.
StoreGoal(op, userId, data) ==
    LET goal == [id |-> Len(goals) + 1, targetAmount |-> data.targetAmount,
                 currentAmount |-> 0, status |-> "ACTIVE", completedAt |-> NONE,
                 userId |-> userId,
                 accountId |-> IF Truthy(data.accountId) THEN data.accountId ELSE NULL,
                 deleted |-> FALSE]
    IN  IF ~GoalAccountExists(goal)
        THEN /\ response' = GoalAnswer(op, 500, "Foreign key constraint violated", NONE)
             /\ UNCHANGED goals
        ELSE /\ goals' = Append(goals, goal)
             /\ response' = GoalAnswer(op, 201, NULL, goal.id)

\* createGoalSchema.parse: the message of the first issue, NULL for a body
\* that passes.  The name is not '' and the deadline is a string in every body
\* here.
CreateGoalIssue(data) ==
    IF data.targetAmount <= 0 THEN "Target amount must be positive" ELSE NULL

\* updateGoalSchema = createGoalSchema.partial(): the same check on a
\* targetAmount the body holds.
UpdateGoalIssue(data) ==
    IF data.targetAmount # NONE /\ data.targetAmount <= 0
    THEN "Target amount must be positive" ELSE NULL

\* POST /api/goals, up to the await that follows its first store call: the
\* schema, then account.findFirst when the body holds an accountId, goal.create
\* otherwise.
CreateGoal(w, userId, data) ==
    /\ edit[w].pc = "idle"
    /\ Len(goals) < MaxGoals
    /\ IF CreateGoalIssue(data) # NULL
       THEN /\ response' = GoalAnswer("createGoal", 400, CreateGoalIssue(data), NONE)
            /\ UNCHANGED <<goals, edit>>
       ELSE IF ~Truthy(data.accountId)
       THEN /\ StoreGoal("createGoal", userId, data)
            /\ UNCHANGED edit
       ELSE IF ~(/\ data.accountId \in DOMAIN accounts
                 /\ accounts[data.accountId].userId = userId)
       THEN /\ response' = GoalAnswer("createGoal", 404, "Account not found", NONE)
            /\ UNCHANGED <<goals, edit>>
       ELSE /\ edit' = [edit EXCEPT ![w] =
                          AwaitGoal("goal.create", "createGoal", userId, NONE, data)]
            /\ UNCHANGED <<goals, response>>
    /\ UNCHANGED <<now, accounts, transfers, categories, goalContributions, contrib,
                   creditCards, recurrences, transactions, gen, calc, lastId>>

\* await prisma.goal.create(...) of a request that looked its account up.
GoalCreate(w) ==
    /\ edit[w].pc = "goal.create"
    /\ StoreGoal(edit[w].op, edit[w].userId, edit[w].data)
    /\ edit' = [edit EXCEPT ![w] = IdleGen]
    /\ UNCHANGED <<now, accounts, transfers, categories, goalContributions, contrib,
                   creditCards, recurrences, transactions, gen, calc, lastId>>

\* const existing = await prisma.goal.findFirst({ where: { id, userId } }) of
\* PUT, PATCH and DELETE /api/goals/:id: 404 without the goal, else the
\* request goes on to the store call pc.
LookUpGoal(w, pc, op, userId, id, data) ==
    /\ edit[w].pc = "idle"
    /\ IF ~FindGoal(id, userId)
       THEN /\ response' = GoalAnswer(op, 404, "Goal not found", id)
            /\ UNCHANGED edit
       ELSE /\ edit' = [edit EXCEPT ![w] = AwaitGoal(pc, op, userId, id, data)]
            /\ UNCHANGED response
    /\ UNCHANGED <<now, accounts, transfers, categories, goals, goalContributions,
                   contrib, creditCards, recurrences, transactions, gen, calc, lastId>>

\* PUT /api/goals/:id, up to the await that follows goal.findFirst: a body
\* the schema refuses is answered 400 before it; the data of the update holds
\* the fields of the body.
UpdateGoal(w, userId, id, data) ==
    IF UpdateGoalIssue(data) # NULL
    THEN /\ edit[w].pc = "idle"
         /\ response' = GoalAnswer("updateGoal", 400, UpdateGoalIssue(data), id)
         /\ UNCHANGED <<now, accounts, transfers, categories, edit, goals,
                        goalContributions, contrib, creditCards, recurrences,
                        transactions, gen, calc, lastId>>
    ELSE LookUpGoal(w, IF Truthy(data.accountId) THEN "goal.findAccount"
                       ELSE "goal.update",
                    "updateGoal", userId, id,
                    Given(data.targetAmount # NONE, "targetAmount", data.targetAmount)
                    @@ Given(data.accountId # NULL, "accountId", data.accountId))

\* const account = await prisma.account.findFirst(...) of PUT /api/goals/:id
GoalFindAccount(w) ==
    /\ edit[w].pc = "goal.findAccount"
    /\ LET e == edit[w]
       IN  IF ~(/\ e.data["accountId"] \in DOMAIN accounts
                /\ accounts[e.data["accountId"]].userId = e.userId)
           THEN /\ response' = GoalAnswer(e.op, 404, "Account not found", e.id)
                /\ edit' = [edit EXCEPT ![w] = IdleGen]
           ELSE /\ edit' = [edit EXCEPT ![w].pc = "goal.update"]
                /\ UNCHANGED response
    /\ UNCHANGED <<now, accounts, transfers, categories, goals, goalContributions,
                   contrib, creditCards, recurrences, transactions, gen, calc, lastId>>

\* PATCH /api/goals/:id/complete, up to its update:
\* data: { status: 'COMPLETED', completedAt: new Date() }
CompleteGoal(w, userId, id) ==
    LookUpGoal(w, "goal.update", "completeGoal", userId, id,
               [status |-> "COMPLETED", completedAt |-> now])

\* PATCH /api/goals/:id/cancel, up to its update: data: { status: 'CANCELLED' }
CancelGoal(w, userId, id) ==
    LookUpGoal(w, "goal.update", "cancelGoal", userId, id, [status |-> "CANCELLED"])

\* await prisma.goal.update({ where: { id }, data }) of the three routes; it
\* throws when the goal is gone or the account it names is not stored.
GoalUpdate(w) ==
    /\ edit[w].pc = "goal.update"
    /\ LET e       == edit[w]
           updated == ApplyUpdate(goals[e.id], e.data)
       IN  IF goals[e.id].deleted
           THEN /\ response' = GoalAnswer(e.op, 500, "Record to update not found", e.id)
                /\ UNCHANGED goals
           ELSE IF ~GoalAccountExists(updated)
           THEN /\ response' = GoalAnswer(e.op, 500, "Foreign key constraint violated",
                                          e.id)
                /\ UNCHANGED goals
           ELSE /\ goals' = [goals EXCEPT ![e.id] = updated]
                /\ response' = GoalAnswer(e.op, 200, NULL, e.id)
    /\ edit' = [edit EXCEPT ![w] = IdleGen]
    /\ UNCHANGED <<now, accounts, transfers, categories, goalContributions, contrib,
                   creditCards, recurrences, transactions, gen, calc, lastId>>

\* DELETE /api/goals/:id, up to its delete.
DeleteGoal(w, userId, id) ==
    LookUpGoal(w, "goal.delete", "deleteGoal", userId, id, <<>>)

\* await prisma.goal.delete({ where: { id } }); goal_contributions.goalId is
\* ON DELETE CASCADE.  With the goal gone the delete throws.
GoalDelete(w) ==
    /\ edit[w].pc = "goal.delete"
    /\ LET e == edit[w]
       IN  IF goals[e.id].deleted
           THEN /\ response' = GoalAnswer(e.op, 500, "Record to delete does not exist",
                                          e.id)
                /\ UNCHANGED <<goals, goalContributions>>
           ELSE /\ goals' = [goals EXCEPT ![e.id].deleted = TRUE]
                /\ goalContributions' =
                       SelectSeq(goalContributions, LAMBDA c : c.goalId # e.id)
                /\ response' = GoalAnswer(e.op, 204, NULL, e.id)
    /\ edit' = [edit EXCEPT ![w] = IdleGen]
    /\ UNCHANGED <<now, accounts, transfers, categories, contrib,
                   creditCards, recurrences, transactions, gen, calc, lastId>>

\* POST /api/goals/:id/contributions: createContributionSchema (a positive
\* amount), const goal = await prisma.goal.findFirst(...) and the two checks
\* that follow it.
ContributionStart(w, userId, id, amount) ==
    /\ contrib[w].pc = "idle"
    /\ UNCHANGED <<now, accounts, transfers, categories, edit, goals, goalContributions,
                   creditCards, recurrences, transactions, gen, calc, lastId>>
    /\ IF amount <= 0
       THEN /\ response' = GoalAnswer("addContribution", 400,
                                      "Amount must be positive", id)
            /\ UNCHANGED contrib
       ELSE IF ~FindGoal(id, userId)
       THEN /\ response' = GoalAnswer("addContribution", 404, "Goal not found", id)
            /\ UNCHANGED contrib
       ELSE IF goals[id].status # "ACTIVE"
       THEN /\ response' = GoalAnswer("addContribution", 400,
                                      "Cannot add contribution to inactive goal", id)
            /\ UNCHANGED contrib
       ELSE /\ contrib' = [contrib EXCEPT ![w] =
                              [pc |-> "transaction", id |-> id, amount |-> amount]]
            /\ UNCHANGED response

\* A goal.update that does not reach the row.
NotIncremented(goal, amount) == goal

\* prisma.goal.update({ data: { currentAmount: { increment: data.amount } } })
Incremented(goal, amount) == [goal EXCEPT !.currentAmount = @ + amount]

\* A test that asks for more than the target.
GoalExceeded(updatedGoal) ==
    /\ updatedGoal.currentAmount > updatedGoal.targetAmount
    /\ updatedGoal.status = "ACTIVE"

\* newCurrentAmount >= targetAmount && updatedGoal.status === 'ACTIVE'
GoalReached(updatedGoal) ==
    /\ updatedGoal.currentAmount >= updatedGoal.targetAmount
    /\ updatedGoal.status = "ACTIVE"

\* await prisma.$transaction([goalContribution.create, goal.update({ increment })])
\* and the test of the goal it returns.  With the goal deleted in the meantime
\* the create violates the foreign key and nothing is written.  A goal that
\* has reached its target goes on to goal.update with completedAt: new Date(),
\* the clock of this step.
ContributionTransaction(w) ==
    /\ contrib[w].pc = "transaction"
    /\ Len(goalContributions) < MaxContributions
    /\ UNCHANGED <<now, accounts, transfers, categories, edit,
                   creditCards, recurrences, transactions, gen, calc, lastId>>
    /\ LET id     == contrib[w].id
           amount == contrib[w].amount
           updatedGoal == Incremented(goals[id], amount)
       IN  IF goals[id].deleted
           THEN /\ response' = GoalAnswer("addContribution", 500,
                                          "Foreign key constraint violated", id)
                /\ contrib' = [contrib EXCEPT ![w] = IdleGen]
                /\ UNCHANGED <<goals, goalContributions>>
           ELSE /\ goalContributions' =
                       Append(goalContributions, [goalId |-> id, amount |-> amount])
                /\ goals' = [goals EXCEPT ![id] = updatedGoal]
                /\ IF GoalReached(updatedGoal)
                   THEN /\ contrib' = [contrib EXCEPT ![w] =
                                           [pc |-> "status", id |-> id,
                                            amount |-> amount, completedAt |-> now]]
                        /\ UNCHANGED response
                   ELSE /\ contrib' = [contrib EXCEPT ![w] = IdleGen]
                        /\ response' = GoalAnswer("addContribution", 201, NULL, id)

\* await prisma.goal.update({ data: { status: 'COMPLETED', completedAt } }) with
\* the completedAt the handler took when it sent the call.
ContributionStatus(w) ==
    /\ contrib[w].pc = "status"
    /\ UNCHANGED <<now, accounts, transfers, categories, edit, goalContributions,
                   creditCards, recurrences, transactions, gen, calc, lastId>>
    /\ contrib' = [contrib EXCEPT ![w] = IdleGen]
    /\ LET id == contrib[w].id
       IN  IF goals[id].deleted
           THEN /\ response' = GoalAnswer("addContribution", 500,
                                          "Record to update not found", id)
                /\ UNCHANGED goals
           ELSE /\ goals' = [goals EXCEPT ![id].status = "COMPLETED",
                                          ![id].completedAt =
                                              contrib[w].completedAt]
                /\ response' = GoalAnswer("addContribution", 201, NULL, id)

\* The process stops while the request of worker w waits for the store: the
\* request ends where it is and is not answered.
ContributionInterrupt(w) ==
    /\ contrib[w].pc # "idle"
    /\ contrib' = [contrib EXCEPT ![w] = IdleGen]
    /\ UNCHANGED <<now, accounts, transfers, categories, edit, goals, goalContributions,
                   creditCards, recurrences, transactions, gen, response, calc, lastId>>

\* Request bodies of POST /api/goals, and amounts of contributions and targets.
GoalInputs ==
    {[targetAmount |-> 10000, accountId |-> "a1"],
     [targetAmount |-> 10000, accountId |-> "a2"],
     [targetAmount |-> 10000, accountId |-> NULL],
     [targetAmount |-> 0, accountId |-> "a1"]}

ContributionAmounts == {4000, 6000, 0}

TargetAmounts == {5000}

\* Request bodies of PUT /api/goals/:id.
GoalPatches ==
    {[targetAmount |-> t, accountId |-> NULL] : t \in TargetAmounts}
    \cup {[targetAmount |-> NONE, accountId |-> a] : a \in {"a3", "a2"}}
    \cup {[targetAmount |-> 0, accountId |-> "a3"]}

NoContribution == \A w \in Workers : contrib[w].pc = "idle"

\* The goal routes with one request served at a time, while the clock moves
\* on.
NextGoals ==
    \/ AllIdle /\ \E data \in GoalInputs : CreateGoal("w1", "u1", data)
    \/ AllIdle /\ \E id \in 1..MaxGoals, data \in GoalPatches :
                     UpdateGoal("w1", "u1", id, data)
    \/ AllIdle /\ \E id \in 1..MaxGoals : CompleteGoal("w1", "u1", id)
    \/ AllIdle /\ \E id \in 1..MaxGoals : CancelGoal("w1", "u1", id)
    \/ AllIdle /\ \E id \in 1..MaxGoals : DeleteGoal("w1", "u1", id)
    \/ AllIdle /\ \E userId \in Users, id \in 1..MaxGoals,
                     amount \in ContributionAmounts :
                     ContributionStart("w1", userId, id, amount)
    \/ GoalCreate("w1")
    \/ GoalFindAccount("w1")
    \/ GoalUpdate("w1")
    \/ GoalDelete("w1")
    \/ ContributionTransaction("w1")
    \/ ContributionStatus("w1")
    \/ Tick

SpecGoals == Init /\ [][NextGoals]_vars

\* The goal routes with overlapping requests, any of which may be interrupted,
\* next to the deletion of accounts.
NextGoalsOverlap ==
    \/ \E data \in GoalInputs : CreateGoal("w1", "u1", data)
    \/ \E id \in 1..MaxGoals, data \in GoalPatches : UpdateGoal("w1", "u1", id, data)
    \/ \E id \in 1..MaxGoals : CompleteGoal("w1", "u1", id)
    \/ \E id \in 1..MaxGoals : CancelGoal("w1", "u1", id)
    \/ \E w \in Workers, id \in 1..MaxGoals : DeleteGoal(w, "u1", id)
    \/ \E id \in {"a1", "a3"} : DeleteAccount("u1", id)
    \/ GoalCreate("w1")
    \/ GoalFindAccount("w1")
    \/ GoalUpdate("w1")
    \/ \E w \in Workers : GoalDelete(w)
    \/ \E w \in Workers, id \in 1..MaxGoals, amount \in ContributionAmounts :
           ContributionStart(w, "u1", id, amount)
    \/ \E w \in Workers : ContributionTransaction(w)
    \/ \E w \in Workers : ContributionStatus(w)
    \/ \E w \in Workers : ContributionInterrupt(w)

SpecGoalsOverlap == Init /\ [][NextGoalsOverlap]_vars

\* The step ends a contribution request of worker w with 201.
ContributionAnswered(w) ==
    /\ contrib[w].pc # "idle"
    /\ contrib'[w].pc = "idle"
    /\ response'.op = "addContribution"
    /\ response'.status = 201

\* C23: a contribution of A to an ACTIVE goal adds A to currentAmount and
\* stores one contribution row of amount A; when the request has answered the
\* goal is COMPLETED if currentAmount has reached targetAmount and ACTIVE
\* otherwise; a contribution to a goal that is not ACTIVE is refused and
\* changes neither the goals nor the contributions.
C23_ContributionEffect ==
    [][/\ (ContributionTransaction("w1") /\ goals' # goals) =>
              LET id == contrib["w1"].id
                  A  == contrib["w1"].amount
              IN  /\ goals[id].status = "ACTIVE"
                  /\ goals'[id].currentAmount = goals[id].currentAmount + A
                  /\ goalContributions' =
                         Append(goalContributions, [goalId |-> id, amount |-> A])
       /\ ContributionAnswered("w1") =>
              LET id == contrib["w1"].id
              IN  /\ goals'[id].status \in {"ACTIVE", "COMPLETED"}
                  /\ goals'[id].status = "COMPLETED"
                         <=> goals'[id].currentAmount >= goals'[id].targetAmount
       /\ \A id \in 1..Len(goals), amount \in ContributionAmounts :
              (/\ ContributionStart("w1", "u1", id, amount)
               /\ ~goals[id].deleted
               /\ goals[id].status # "ACTIVE")
                  => /\ response'.status = 400
                     /\ goals' = goals
                     /\ goalContributions' = goalContributions
                     /\ contrib' = contrib]_vars

\* Contributions of 40.00 and 60.00 to a goal of 100.00 have been answered:
\* the goal holds exactly its target and is COMPLETED.
C23_CompletedAtTarget ==
    /\ response.op = "addContribution"
    /\ response.status = 201
    /\ NoContribution
    /\ Len(goalContributions) = 2
    /\ goals[response.id].currentAmount = 10000
    /\ goals[response.id].targetAmount = 10000
    /\ goals[response.id].status = "COMPLETED"
    /\ goals[response.id].completedAt # NONE

\* C24: in every state of the goal routes served with overlapping requests,
\* any of which may be interrupted between two store calls, the currentAmount
\* of every goal is the sum of the amounts of its contributions, and no
\* contribution is stored for a goal that is gone.
C24_CurrentAmountIsSumOfContributions ==
    \A id \in 1..Len(goals) :
        LET rows == SelectSeq(goalContributions, LAMBDA c : c.goalId = id)
        IN  IF goals[id].deleted THEN rows = <<>>
            ELSE goals[id].currentAmount = SumAmounts(rows)

\* Two requests have each stored a contribution; the one that brought the
\* goal to its target of 100.00 was interrupted before it stored the status,
\* so that no request is in flight and the goal is still ACTIVE.
C24_InterruptedBeforeStatus ==
    /\ NoContribution
    /\ Len(goalContributions) = 2
    /\ Len(goals) = 1
    /\ ~goals[1].deleted
    /\ goals[1].status = "ACTIVE"
    /\ goals[1].targetAmount = 10000
    /\ goals[1].currentAmount = 10000

(***************************************************************************)
(* Transfers: creation and update                                          *)
(***************************************************************************)
\* updateTransferSchema: every field is optional; an amount must be positive
\* and an account id must not be ''; the refinement compares the two account
\* ids only when both are given.  The value is the message of the first
\* issue, NULL for a body that passes.
UpdateTransferIssue(data) ==
    IF data.amount # NONE /\ data.amount <= 0 THEN "Amount must be positive"
    ELSE IF data.fromAccountId = "" THEN "From account ID is required"
    ELSE IF data.toAccountId = "" THEN "To account ID is required"
    ELSE IF /\ Truthy(data.fromAccountId)
            /\ Truthy(data.toAccountId)
            /\ data.fromAccountId = data.toAccountId
    THEN "From account and to account must be different"
    ELSE NULL

UpdateTransferRejected(data) == UpdateTransferIssue(data) # NULL

\* The data of prisma.transfer.update({ where: { id }, data }): the fields the
\* body holds.
UpdateTransferData(data) ==
    Given(data.amount # NONE, "amount", data.amount)
    @@ Given(data.date # NoYmd, "date", parseDateToBrazilTimezone(data.date))
    @@ Given(data.fromAccountId # NULL, "fromAccountId", data.fromAccountId)
    @@ Given(data.toAccountId # NULL, "toAccountId", data.toAccountId)

\* PUT /api/transfers/:id, up to the await that follows transfer.findFirst:
\* the schema, then the transfer must be the user's.  With an account in the
\* body the handler goes on to account.findMany, else to the update.
UpdateTransfer(w, userId, id, data) ==
    /\ edit[w].pc = "idle"
    /\ IF UpdateTransferRejected(data)
       THEN /\ response' = Answer("updateTransfer", 400, UpdateTransferIssue(data))
            /\ UNCHANGED edit
       ELSE IF OwnedTransfer(id, userId) = {}
       THEN /\ response' = Answer("updateTransfer", 404, "Transfer not found")
            /\ UNCHANGED edit
       ELSE /\ edit' = [edit EXCEPT ![w] =
                          [pc |-> IF Truthy(data.fromAccountId) \/ Truthy(data.toAccountId)
                                  THEN "account.findMany" ELSE "transfer.update",
                           op |-> "updateTransfer", userId |-> userId, id |-> id,
                           accountIds |-> {a \in {data.fromAccountId, data.toAccountId} :
                                              Truthy(a)},
                           data |-> UpdateTransferData(data)]]
            /\ UNCHANGED response
    /\ UNCHANGED <<now, accounts, transfers, categories, goals, goalContributions,
                   contrib, creditCards, recurrences, transactions, gen, calc, lastId>>

\* const accounts = await prisma.account.findMany(...) of PUT /api/transfers/:id:
\* the accounts that are given must be the user's.
TransferFindMany(w) ==
    /\ edit[w].pc = "account.findMany"
    /\ LET e == edit[w]
       IN  IF OwnedAccounts(e.accountIds, e.userId) # e.accountIds
           THEN /\ response' = Answer(e.op, 404, "One or more accounts not found")
                /\ edit' = [edit EXCEPT ![w] = IdleGen]
           ELSE /\ edit' = [edit EXCEPT ![w].pc = "transfer.update"]
                /\ UNCHANGED response
    /\ UNCHANGED <<now, accounts, transfers, categories, goals, goalContributions,
                   contrib, creditCards, recurrences, transactions, gen, calc, lastId>>

\* await prisma.transfer.update({ where: { id }, data }): the given fields
\* overwrite the row as it is stored now; the update throws when the row is
\* gone or an account it names is not stored.
TransferUpdate(w) ==
    /\ edit[w].pc = "transfer.update"
    /\ LET e       == edit[w]
           found   == {i \in 1..Len(transfers) : transfers[i].id = e.id}
           i       == CHOOSE j \in found : TRUE
           updated == ApplyUpdate(transfers[i], e.data)
       IN  IF found = {} \/ ~TransferAccountsExist(updated)
           THEN /\ response' = Answer(e.op, 500, "Internal server error")
                /\ UNCHANGED transfers
           ELSE /\ transfers' = [transfers EXCEPT ![i] = updated]
                /\ response' = Answer(e.op, 200, NULL)
    /\ edit' = [edit EXCEPT ![w] = IdleGen]
    /\ UNCHANGED <<now, accounts, categories, goals, goalContributions, contrib,
                   creditCards, recurrences, transactions, gen, calc, lastId>>

\* Request bodies of POST /api/transfers and PUT /api/transfers/:id.
TransferAccounts == {"a1", "a2", "a3"}

CreateTransferInputs ==
    {[amount |-> a, date |-> <<2024, 1, 15>>, fromAccountId |-> f,
      toAccountId |-> t] :
        a \in {30000, 0}, f \in TransferAccounts \cup {""},
        t \in TransferAccounts \cup {""}}

UpdateTransferInputs ==
    {[amount |-> a, date |-> d, fromAccountId |-> f, toAccountId |-> t] :
        a \in {NONE, 5000, 0}, d \in {NoYmd, <<2024, 2, 1>>, <<2024, 3, 1>>},
        f \in TransferAccounts \cup {NULL, ""}, t \in TransferAccounts \cup {NULL, ""}}

\* The number of transfers created, deleted ones included.
MaxTransferIds == 2

NextTransfers ==
    \/ AllIdle /\ \E data \in CreateTransferInputs :
           /\ Len(transfers) < MaxTransfers
           /\ lastId.transfers < MaxTransferIds
           /\ CreateTransfer("w1", "u1", data)
    \/ AllIdle /\ \E id \in 1..MaxTransferIds, data \in UpdateTransferInputs :
           UpdateTransfer("w1", "u1", id, data)
    \/ \E id \in 1..MaxTransferIds : DeleteTransfer("u1", id)
    \/ TransferCreate("w1")
    \/ TransferFindMany("w1")
    \/ TransferUpdate("w1")

SpecTransfers == Init /\ [][NextTransfers]_vars

\* C25: every stored transfer has fromAccountId different from toAccountId,
\* whatever transfers were created and updated before.
C25_TransferAccountsDiffer ==
    \A i \in 1..Len(transfers) :
        transfers[i].fromAccountId # transfers[i].toAccountId

\* An update went through and the transfer it wrote debits and credits the
\* same account.
C25_UpdatedToSameAccount ==
    /\ response.op = "updateTransfer"
    /\ response.status = 200
    /\ \E i \in 1..Len(transfers) :
           transfers[i].fromAccountId = transfers[i].toAccountId

(***************************************************************************)
(* Installment batches next to the recurrence routes, one request at a     *)
(* time.                                                                   *)
(***************************************************************************)
\* The number of installment batches created.
MaxPlans == 1

\* Request bodies of POST /api/transactions/installments: on the account and
\* on the card.
PlanInputs ==
    {InstallmentBase, [InstallmentBase EXCEPT !.creditCardId = "k1"]}

NextPlans ==
    \/ AllIdle /\ \E data \in RecurringInputs : CreateRecurring("u1", data)
    \/ AllIdle /\ \E data \in PlanInputs, totalInstallments \in 2..MaxInstallments :
           /\ Cardinality({i \in 1..Len(recurrences) :
                              recurrences[i].type = "INSTALLMENT"}) < MaxPlans
           /\ CreateInstallments("w1", "u1", data, totalInstallments)
    \/ InstallmentRecurrenceCreate("w1")
    \/ InstallmentCreate("w1")
    \/ AllIdle /\ \E id \in 1..(MaxRecurrences + MaxPlans), data \in UpdateInputs :
                     UpdateRecurring("w1", "u1", id, data)
    \/ AllIdle /\ \E id \in 1..(MaxRecurrences + MaxPlans) :
                     PauseRecurring("w1", "u1", id)
    \/ AllIdle /\ \E id \in 1..(MaxRecurrences + MaxPlans) :
                     ResumeRecurring("w1", "u1", id)
    \/ RecurrenceUpdate("w1")
    \/ AllIdle /\ GenerateStart("w1", "u1")
    \/ GenerateFindFirst("w1")
    \/ GenerateCreate("w1")
    \/ GenerateUpdate("w1")
    \/ AllIdle /\ Advance

SpecPlans == Init /\ [][NextPlans]_vars

\* The transactions of a recurrence among the given rows.
RowsOf(rows, id) == SelectSeq(rows, LAMBDA t : t.recurrenceId = id)

\* C26: the Recurrence row of an installment batch is never selected by
\* /generate, resume, pause or update: no request changes the row, the batch
\* keeps exactly its N installments once the request that creates them has
\* stored them, /generate never has the row in its work list, and update,
\* pause and resume answer 404 for it.
C26_InstallmentRecurrenceNeverSelected ==
    [][\A id \in 1..Len(recurrences') :
           recurrences'[id].type = "INSTALLMENT" =>
               /\ edit'["w1"].pc = "idle" =>
                      Len(RowsOf(transactions', id)) = recurrences'[id].totalInstallments
               /\ id <= Len(recurrences) => recurrences'[id] = recurrences[id]
               /\ (id <= Len(recurrences) /\ edit["w1"].pc = "idle") =>
                      RowsOf(transactions', id) = RowsOf(transactions, id)
               /\ \A w \in Workers :
                      gen'[w].pc # "idle" =>
                          \A i \in 1..Len(gen'[w].queue) : gen'[w].queue[i].id # id
               /\ (/\ response'.op \in {"updateRecurring", "pauseRecurring",
                                        "resumeRecurring"}
                   /\ response'.id = id) => response'.status = 404]_vars

\* A /generate run has extended a recurrence while an installment batch with
\* all its installments is in the store.
C26_GeneratedNextToInstallments ==
    /\ response.op = "generate"
    /\ response.generated > 0
    /\ \E id \in 1..Len(recurrences) :
           /\ recurrences[id].type = "INSTALLMENT"
           /\ Len(RowsOf(transactions, id)) = recurrences[id].totalInstallments
           /\ \E j \in 1..Len(recurrences) : recurrences[j].isActive /\ j # id

(***************************************************************************)
(* calculateNextDueDate as a function of its arguments.                    *)
(***************************************************************************)
\* intervalCount is validated as z.number().int().positive()
MaxIntervalCount == 3

\* Dates as the routes store them: midnight in the server's zone.
BaseDates ==
    {DateUTC(d[1], d[2] - 1, d[3], 3) :
        d \in {<<2024, 1, 15>>, <<2024, 1, 31>>, <<2024, 2, 29>>, <<2024, 8, 31>>,
               <<2023, 12, 31>>, <<2024, 11, 30>>}}

NextDueInputs ==
    {[fn |-> "input", startDate |-> s, interval |-> i, intervalCount |-> n,
      lastDate |-> l] :
        s \in BaseDates, i \in {"DAY", "WEEK", "MONTH", "YEAR"},
        n \in 1..MaxIntervalCount, l \in BaseDates \cup {NONE}}

InitNextDue ==
    /\ now = NowStart
    /\ accounts = InitAccounts
    /\ transfers = <<>>
    /\ categories = InitCategories
    /\ goals = <<>>
    /\ goalContributions = <<>>
    /\ contrib = [w \in Workers |-> IdleGen]
    /\ edit = [w \in Workers |-> IdleGen]
    /\ creditCards = InitCreditCards
    /\ recurrences = <<>>
    /\ transactions = <<>>
    /\ gen = [w \in Workers |-> IdleGen]
    /\ lastId = NoIds
    /\ response = NoResponse
    /\ calc \in NextDueInputs

NextDueDate ==
    /\ calc.fn = "input"
    /\ calc' = [fn |-> "calculateNextDueDate", startDate |-> calc.startDate,
                interval |-> calc.interval, intervalCount |-> calc.intervalCount,
                lastDate |-> calc.lastDate,
                result |-> calculateNextDueDate(calc.startDate, calc.interval,
                                                calc.intervalCount, calc.lastDate)]
    /\ UNCHANGED <<now, accounts, transfers, categories, edit, goals, goalContributions,
                   contrib, creditCards, recurrences, transactions, gen, lastId,
                   response>>

NextNextDue == NextDueDate

SpecNextDue == InitNextDue /\ [][NextNextDue]_vars

\* The base date of a call: lastDate when given, otherwise startDate.
BaseOf(c) == IF c.lastDate # NONE THEN c.lastDate ELSE c.startDate

\* The result is n months (n years) after the base on the same day of month,
\* or n days (n weeks) after it.
AsClaimed(c) ==
    LET base == BaseOf(c)
    IN  CASE c.interval = "DAY"   -> c.result = base + c.intervalCount * 24
          [] c.interval = "WEEK"  -> c.result = base + c.intervalCount * 7 * 24
          [] c.interval = "MONTH" ->
                 /\ MonthIndex(c.result) = MonthIndex(base) + c.intervalCount
                 /\ getDate(c.result) = getDate(base)
          [] c.interval = "YEAR"  ->
                 /\ MonthIndex(c.result) = MonthIndex(base) + 12 * c.intervalCount
                 /\ getDate(c.result) = getDate(base)

\* C27: for MONTH and YEAR calculateNextDueDate returns the date intervalCount
\* months (years) after the base date with the base date's day of month; for
\* DAY and WEEK the base date plus intervalCount days (weeks).  The base date
\* is lastDate when given, otherwise startDate.
C27_NextDueDate ==
    calc.fn = "calculateNextDueDate" => AsClaimed(calc)

\* The same rule for the calls whose base day of month exists in the month
\* the result is due in.
C27_NextDueDateWhenDayExists ==
    (/\ calc.fn = "calculateNextDueDate"
     /\ LET base   == BaseOf(calc)
            months == CASE calc.interval = "MONTH" -> calc.intervalCount
                        [] calc.interval = "YEAR"  -> 12 * calc.intervalCount
                        [] OTHER -> 0
            target == MonthIndex(base) + months
        IN  getDate(base) <= DaysInMonth(target \div 12, target % 12))
    => AsClaimed(calc)

\* A monthly step from the 31st of a month.
C27_MonthlyFromThe31st ==
    /\ calc.fn = "calculateNextDueDate"
    /\ calc.interval = "MONTH"
    /\ getDate(BaseOf(calc)) = 31
    /\ getDate(calc.result) # 31

(***************************************************************************)
(* The ledger of one user seen by another: u1 sends requests, and the      *)
(* balance of u2's account and the used amount of u2's card are read.      *)
(***************************************************************************)
\* GET /api/accounts/:id/balance: the balance of one account at the end of
\* today.
Balance(id, clock) ==
    LET today         == setHours(clock, 23)
        counted       == SelectSeq(transactions, LAMBDA t : /\ t.accountId = id
                                                            /\ t.date <= today)
        income        == SumAmounts(SelectSeq(counted, LAMBDA t : t.type = "INCOME"))
        expense       == SumAmounts(SelectSeq(counted, LAMBDA t : t.type # "INCOME"))
        transfersFrom == SumAmounts(SelectSeq(transfers,
                             LAMBDA t : t.fromAccountId = id /\ t.date <= today))
        transfersTo   == SumAmounts(SelectSeq(transfers,
                             LAMBDA t : t.toAccountId = id /\ t.date <= today))
    IN  accounts[id].initialBalance + income - expense - transfersFrom + transfersTo

\* Request bodies of u1 that name an account or a card of u2.
ForeignInputs ==
    {TransactionBase,
     [TransactionBase EXCEPT !.accountId = "a2"],
     [TransactionBase EXCEPT !.creditCardId = "k2"]}

ForeignPatches ==
    {[NoTransactionPatch EXCEPT !.accountId = "a2"],
     [NoTransactionPatch EXCEPT !.creditCardId = "k2"]}

ForeignTransferPatches ==
    {[amount |-> NONE, date |-> NoYmd, fromAccountId |-> NULL, toAccountId |-> "a2"],
     [amount |-> NONE, date |-> NoYmd, fromAccountId |-> "a3", toAccountId |-> "a1"],
     [amount |-> NONE, date |-> NoYmd, fromAccountId |-> NULL, toAccountId |-> ""]}

ForeignInstallments ==
    {InstallmentBase, [InstallmentBase EXCEPT !.accountId = "a2"]}

ForeignRecurring ==
    {ServiceRecurringBase, [ServiceRecurringBase EXCEPT !.creditCardId = "k2"]}

NextIsolation ==
    \/ AllIdle /\ \E data \in ForeignInputs :
           lastId.transactions < MaxLedger /\ CreateTransaction("w1", "u1", data)
    \/ AllIdle /\ \E data \in ForeignInstallments :
           /\ lastId.transactions + 2 <= MaxLedger
           /\ Len(recurrences) < MaxRecurrences
           /\ CreateInstallments("w1", "u1", data, 2)
    \/ AllIdle /\ \E data \in ForeignRecurring :
           /\ lastId.transactions < MaxLedger
           /\ Len(recurrences) < MaxRecurrences
           /\ CreateRecurringTransactions("w1", "u1", data)
    \/ AllIdle /\ \E id \in 1..MaxLedger, data \in ForeignPatches :
           UpdateTransaction("w1", "u1", id, data)
    \/ AllIdle /\ \E id \in 1..MaxLedger, accountId \in {NULL, "a2"} :
           UpdateTransactionPaidStatus("w1", "u1", id, TRUE, NoYmd, accountId)
    \/ AllIdle /\ \E id \in 1..MaxLedger : DeleteTransaction("w1", "u1", id)
    \/ AllIdle /\ \E data \in TransferInputs :
           Len(transfers) < MaxTransfers /\ CreateTransfer("w1", "u1", data)
    \/ AllIdle /\ \E id \in 1..MaxTransfers, data \in ForeignTransferPatches :
           UpdateTransfer("w1", "u1", id, data)
    \/ TransactionCreate("w1")
    \/ InstallmentCreate("w1")
    \/ RecurringFindUnique("w1")
    \/ TransactionFindUnique("w1")
    \/ PaidFindAccount("w1")
    \/ /\ TransactionUpdate("w1")
       /\ \A i \in 1..Len(transactions') : transactions'[i].date <= StoreHorizon
    \/ TransactionDelete("w1")
    \/ TransferCreate("w1")
    \/ TransferFindMany("w1")
    \/ TransferUpdate("w1")

SpecIsolation == Init /\ [][NextIsolation]_vars

\* C28: whatever u1 does (transactions created, updated, paid, deleted,
\* installments, recurring transactions, transfers), the balance reported for
\* an account of u2 and the usedAmount reported for a card of u2 stay what
\* they were before u1's first request: the initial balance, and zero.
C28_ForeignLedgerUntouched ==
    /\ \A id \in DOMAIN accounts :
           accounts[id].userId = "u2" => Balance(id, now) = accounts[id].initialBalance
    /\ \A id \in CardsOf("u2") :
           GroupedUsedAmount(id, now) = 0 /\ AggregateUsedAmount(id) = 0

(***************************************************************************)
(* The three balance computations: GET /api/accounts/:id/balance,          *)
(* GET /api/accounts/balances/all and GET /monthly-statement.              *)
(***************************************************************************)
\* res.json({ balance })
BalanceAnswer(userId, id, balance) ==
    [op |-> "balance", status |-> 200, error |-> NULL, userId |-> userId,
     id |-> id, balance |-> balance]

\* GET /api/accounts/:id/balance, up to the await that follows
\* account.findFirst: 404 unless the account is the user's, else
\* today = new Date() with setHours(23, 59, 59, 999).
GetBalance(w, userId, id) ==
    /\ edit[w].pc = "idle"
    /\ IF ~(id \in DOMAIN accounts /\ accounts[id].userId = userId)
       THEN /\ response' = Answer("balance", 404, "Account not found")
            /\ UNCHANGED edit
       ELSE /\ edit' = [edit EXCEPT ![w] =
                          [pc |-> "balance.transactions", op |-> "balance",
                           userId |-> userId, id |-> id,
                           today |-> setHours(now, 23),
                           balance |-> accounts[id].initialBalance]]
            /\ UNCHANGED response
    /\ UNCHANGED <<now, accounts, transfers, categories, goals, goalContributions,
                   contrib, creditCards, recurrences, transactions, gen, calc, lastId>>

\* const transactions = await prisma.transaction.findMany({ where: { accountId,
\* date: { lte: today } } }): INCOME rows are added, the others subtracted.
BalanceTransactions(w) ==
    /\ edit[w].pc = "balance.transactions"
    /\ LET e       == edit[w]
           counted == SelectSeq(transactions, LAMBDA t : /\ t.accountId = e.id
                                                         /\ t.date <= e.today)
       IN  edit' = [edit EXCEPT ![w].pc = "balance.transfersFrom",
                                ![w].balance =
                                    @ + SumOf(counted, LAMBDA t : t.type = "INCOME")
                                      - SumOf(counted, LAMBDA t : t.type # "INCOME")]
    /\ UNCHANGED <<now, accounts, transfers, categories, goals, goalContributions,
                   contrib, creditCards, recurrences, transactions, gen, response,
                   calc, lastId>>

\* const transfersFrom = await prisma.transfer.findMany({ where: { fromAccountId,
\* date: { lte: today } } })
BalanceTransfersFrom(w) ==
    /\ edit[w].pc = "balance.transfersFrom"
    /\ LET e == edit[w]
       IN  edit' = [edit EXCEPT ![w].pc = "balance.transfersTo",
                                ![w].balance =
                                    @ - SumOf(transfers,
                                              LAMBDA t : /\ t.fromAccountId = e.id
                                                         /\ t.date <= e.today)]
    /\ UNCHANGED <<now, accounts, transfers, categories, goals, goalContributions,
                   contrib, creditCards, recurrences, transactions, gen, response,
                   calc, lastId>>

\* const transfersTo = await prisma.transfer.findMany({ where: { toAccountId,
\* date: { lte: today } } }) and the answer.
BalanceTransfersTo(w) ==
    /\ edit[w].pc = "balance.transfersTo"
    /\ LET e == edit[w]
       IN  response' = BalanceAnswer(e.userId, e.id,
                           e.balance + SumOf(transfers,
                                             LAMBDA t : /\ t.toAccountId = e.id
                                                        /\ t.date <= e.today))
    /\ edit' = [edit EXCEPT ![w] = IdleGen]
    /\ UNCHANGED <<now, accounts, transfers, categories, goals, goalContributions,
                   contrib, creditCards, recurrences, transactions, gen, calc, lastId>>

\* new Date(year, month - 1, 1) and new Date(year, month, 0, 23, 59, 59): the
\* first instant of the month and its last hour.
MonthStart(year, month) == NewDate(year, month - 1, 1)
MonthEnd(year, month)   == NewDate(year, month, 0) + 23

\* date.toISOString().split('T')[0]: the calendar day in UTC.
DayString(t) == UTCCivil(t)

\* A JavaScript number: a finite value, or NaN.
Num(value) == [nan |-> FALSE, value |-> value]
NaN        == [nan |-> TRUE, value |-> 0]

\* The accounts an entry of the statement touches: the account of a
\* transaction, both accounts of a transfer.
Touched(row) ==
    IF "fromAccountId" \in DOMAIN row THEN {row.fromAccountId, row.toAccountId}
    ELSE {row.accountId}

\* What an entry adds to currentBalances[id].
Delta(row, id) ==
    IF "fromAccountId" \in DOMAIN row
    THEN (IF row.toAccountId = id THEN row.amount ELSE 0)
         - (IF row.fromAccountId = id THEN row.amount ELSE 0)
    ELSE IF row.accountId # id THEN 0
    ELSE IF row.type = "INCOME" THEN row.amount ELSE 0 - row.amount

RECURSIVE SumDelta(_, _)
SumDelta(rows, id) ==
    IF rows = <<>> THEN 0 ELSE Delta(Head(rows), id) + SumDelta(Tail(rows), id)

\* Object.values(object).reduce((sum, value) => sum + value, 0)
RECURSIVE SumValues(_, _)
SumValues(object, keys) ==
    IF keys = {} THEN 0
    ELSE LET key == CHOOSE k \in keys : TRUE
         IN  object[key] + SumValues(object, keys \ {key})

\* dailyBalances of GET /monthly-statement: currentBalances starts as the
\* initial balances of the accounts listed; day by day the entries whose day
\* string equals the day's are replayed.  An entry on an account that is not
\* listed finds currentBalances[id] undefined, and `undefined += amount` leaves
\* NaN under that key from that day on; totalBalance adds up every key.
StatementBalances(year, month, entries, initialBalances) ==
    LET daysInMonth == getDate(MonthEnd(year, month))
        dayString == [day \in 1..daysInMonth |->
                         DayString(NewDate(year, month - 1, day))]
        \* the day an entry is replayed on, 0 for an entry under no day's string
        dayOf == [i \in 1..Len(entries) |->
                     LET days == {d \in 1..daysInMonth :
                                     dayString[d] = DayString(entries[i].date)}
                     IN  IF days = {} THEN 0 ELSE CHOOSE d \in days : TRUE]
        replayed(day) ==
            LET at == {i \in 1..Len(entries) : dayOf[i] \in 1..day}
                RECURSIVE rows(_)
                rows(i) == IF i > Len(entries) THEN <<>>
                           ELSE (IF i \in at THEN <<entries[i]>> ELSE <<>>)
                                \o rows(i + 1)
            IN  rows(1)
        balancesOn(done) ==
            LET unlisted == UNION {Touched(done[i]) : i \in 1..Len(done)}
                            \ DOMAIN initialBalances
                listed   == [id \in DOMAIN initialBalances |->
                                initialBalances[id] + SumDelta(done, id)]
            IN  [balances |->
                     [id \in DOMAIN initialBalances \cup unlisted |->
                         IF id \in DOMAIN initialBalances THEN Num(listed[id])
                         ELSE NaN],
                 totalBalance |->
                     IF unlisted # {} THEN NaN
                     ELSE Num(SumValues(listed, DOMAIN initialBalances))]
    IN  [day \in 1..daysInMonth |-> balancesOn(replayed(day))]

\* res.json({ month, year, dailyBalances, accounts })
StatementAnswer(e, dailyBalances) ==
    [op |-> "monthlyStatement", status |-> 200, error |-> NULL,
     userId |-> e.userId, year |-> e.year, month |-> e.month,
     dailyBalances |-> dailyBalances]

\* GET /monthly-statement?year=&month=&accountId=, up to the await that
\* follows transaction.findMany: 400 without year or month, else the rows of
\* the user dated within the month (of the account, when one is asked for).
GetMonthlyStatement(w, userId, year, month, accountId) ==
    /\ edit[w].pc = "idle"
    /\ IF year = NONE \/ month = NONE
       THEN /\ response' = Answer("monthlyStatement", 400,
                                  "Year and month are required")
            /\ UNCHANGED edit
       ELSE /\ edit' = [edit EXCEPT ![w] =
                          [pc |-> "statement.transfers", op |-> "monthlyStatement",
                           userId |-> userId, year |-> year, month |-> month,
                           accountId |-> accountId,
                           startDate |-> MonthStart(year, month),
                           entries |->
                               SelectSeq(transactions,
                                   LAMBDA t : /\ t.userId = userId
                                              /\ t.date >= MonthStart(year, month)
                                              /\ t.date <= MonthEnd(year, month)
                                              /\ Truthy(accountId) =>
                                                     t.accountId = accountId)]]
            /\ UNCHANGED response
    /\ UNCHANGED <<now, accounts, transfers, categories, goals, goalContributions,
                   contrib, creditCards, recurrences, transactions, gen, calc, lastId>>

\* const transfers = await prisma.transfer.findMany(...): the transfers of the
\* user dated within the month (from or to the account, when one is asked
\* for).  The replay of a day takes its transactions first, then its
\* transfers; the sums do not depend on the order.
StatementTransferFindMany(w) ==
    /\ edit[w].pc = "statement.transfers"
    /\ LET e == edit[w]
       IN  edit' = [edit EXCEPT ![w].pc = "statement.accounts",
                                ![w].entries = @ \o
                                    SelectSeq(transfers,
                                        LAMBDA t : /\ t.userId = e.userId
                                                   /\ t.date >= e.startDate
                                                   /\ t.date <= MonthEnd(e.year, e.month)
                                                   /\ Truthy(e.accountId) =>
                                                          \/ t.fromAccountId = e.accountId
                                                          \/ t.toAccountId = e.accountId)]
    /\ UNCHANGED <<now, accounts, transfers, categories, goals, goalContributions,
                   contrib, creditCards, recurrences, transactions, gen, response,
                   calc, lastId>>

\* const accounts = await prisma.account.findMany({ where: { userId [, id] } }):
\* without an account the answer holds no day.
StatementAccountFindMany(w) ==
    /\ edit[w].pc = "statement.accounts"
    /\ LET e      == edit[w]
           listed == {id \in DOMAIN accounts :
                         /\ accounts[id].userId = e.userId
                         /\ Truthy(e.accountId) => id = e.accountId}
       IN  IF listed = {}
           THEN /\ response' = StatementAnswer(e, <<>>)
                /\ edit' = [edit EXCEPT ![w] = IdleGen]
           ELSE /\ edit' = [edit EXCEPT ![w] =
                              [pc |-> "statement.incomeBefore",
                               accounts |-> [id \in listed |->
                                                accounts[id].initialBalance]] @@ e]
                /\ UNCHANGED response
    /\ UNCHANGED <<now, accounts, transfers, categories, goals, goalContributions,
                   contrib, creditCards, recurrences, transactions, gen, calc, lastId>>

\* const incomeBeforeByAccount = await prisma.transaction.groupBy(...
\* date: { lt: startDate }, type: 'INCOME')
StatementIncomeBefore(w) ==
    /\ edit[w].pc = "statement.incomeBefore"
    /\ LET e == edit[w]
       IN  edit' = [edit EXCEPT ![w] =
                       [pc |-> "statement.expenseBefore",
                        income |-> GroupBy("accountId", SelectSeq(transactions,
                                       LAMBDA t : /\ t.accountId \in DOMAIN e.accounts
                                                  /\ t.date < e.startDate
                                                  /\ t.type = "INCOME"))] @@ e]
    /\ UNCHANGED <<now, accounts, transfers, categories, goals, goalContributions,
                   contrib, creditCards, recurrences, transactions, gen, response,
                   calc, lastId>>

\* const expenseBeforeByAccount = await prisma.transaction.groupBy(...
\* date: { lt: startDate }, type: 'EXPENSE')
StatementExpenseBefore(w) ==
    /\ edit[w].pc = "statement.expenseBefore"
    /\ LET e == edit[w]
       IN  edit' = [edit EXCEPT ![w] =
                       [pc |-> "statement.transfersFromBefore",
                        expense |-> GroupBy("accountId", SelectSeq(transactions,
                                        LAMBDA t : /\ t.accountId \in DOMAIN e.accounts
                                                   /\ t.date < e.startDate
                                                   /\ t.type = "EXPENSE"))] @@ e]
    /\ UNCHANGED <<now, accounts, transfers, categories, goals, goalContributions,
                   contrib, creditCards, recurrences, transactions, gen, response,
                   calc, lastId>>

\* const transfersFromBeforeByAccount = await prisma.transfer.groupBy(
\* { by: ['fromAccountId'], ... date: { lt: startDate } })
StatementTransfersFromBefore(w) ==
    /\ edit[w].pc = "statement.transfersFromBefore"
    /\ LET e == edit[w]
       IN  edit' = [edit EXCEPT ![w] =
                       [pc |-> "statement.transfersToBefore",
                        transfersFrom |->
                            GroupBy("fromAccountId", SelectSeq(transfers,
                                LAMBDA t : /\ t.fromAccountId \in DOMAIN e.accounts
                                           /\ t.date < e.startDate))] @@ e]
    /\ UNCHANGED <<now, accounts, transfers, categories, goals, goalContributions,
                   contrib, creditCards, recurrences, transactions, gen, response,
                   calc, lastId>>

\* const transfersToBeforeByAccount = await prisma.transfer.groupBy(
\* { by: ['toAccountId'], ... date: { lt: startDate } }), the initial balances
\* from the four maps, the replay of the month and the answer.
StatementTransfersToBefore(w) ==
    /\ edit[w].pc = "statement.transfersToBefore"
    /\ LET e == edit[w]
           transfersTo == GroupBy("toAccountId", SelectSeq(transfers,
                              LAMBDA t : /\ t.toAccountId \in DOMAIN e.accounts
                                         /\ t.date < e.startDate))
           initialBalances ==
               [id \in DOMAIN e.accounts |->
                   e.accounts[id] + MapGet(e.income, id) - MapGet(e.expense, id)
                   - MapGet(e.transfersFrom, id) + MapGet(transfersTo, id)]
       IN  response' = StatementAnswer(e, StatementBalances(e.year, e.month,
                                                            e.entries, initialBalances))
    /\ edit' = [edit EXCEPT ![w] = IdleGen]
    /\ UNCHANGED <<now, accounts, transfers, categories, goals, goalContributions,
                   contrib, creditCards, recurrences, transactions, gen, calc, lastId>>

\* Requests of u1 on u1's accounts: ledger entries in December, January and
\* February, transfers, payments with and without a payment date, and the
\* three balance queries.
StatementInputs ==
    {TransactionBase,
     [TransactionBase EXCEPT !.type = "INCOME", !.amount = 7000,
                             !.date = <<2023, 12, 20>>],
     [TransactionBase EXCEPT !.amount = 3000, !.date = <<2024, 1, 31>>,
                             !.accountId = "a3"]}

StatementPayments == {NoYmd, <<2024, 2, 1>>}

StatementTransfers ==
    {[amount |-> 30000, date |-> <<2024, 1, 15>>, fromAccountId |-> "a1",
      toAccountId |-> "a3"]}

StatementMonths == {<<2024, 1>>, <<2024, 2>>, <<2024, NONE>>}

NextStatement ==
    \/ AllIdle /\ \E data \in StatementInputs :
           Len(transactions) < MaxLedger /\ CreateTransaction("w1", "u1", data)
    \/ AllIdle /\ \E id \in 1..MaxLedger, paidAt \in StatementPayments :
           UpdateTransactionPaidStatus("w1", "u1", id, TRUE, paidAt, NULL)
    \/ AllIdle /\ \E data \in StatementTransfers :
           Len(transfers) < MaxTransfers /\ CreateTransfer("w1", "u1", data)
    \/ AllIdle /\ \E id \in {"a1", "a2"} : GetBalance("w1", "u1", id)
    \/ AllIdle /\ GetBalances("w1", "u1", NoYmd, NULL)
    \/ AllIdle /\ \E m \in StatementMonths, accountId \in {NULL, "a1"} :
           GetMonthlyStatement("w1", "u1", m[1], m[2], accountId)
    \/ TransactionUpdate("w1")
    \/ TransferCreate("w1")
    \/ BalanceTransactions("w1")
    \/ BalanceTransfersFrom("w1")
    \/ BalanceTransfersTo("w1")
    \/ BalancesIncome("w1")
    \/ BalancesExpense("w1")
    \/ BalancesTransfersFrom("w1")
    \/ BalancesTransfersTo("w1")
    \/ StatementTransferFindMany("w1")
    \/ StatementAccountFindMany("w1")
    \/ StatementIncomeBefore("w1")
    \/ StatementExpenseBefore("w1")
    \/ StatementTransfersFromBefore("w1")
    \/ StatementTransfersToBefore("w1")

SpecStatement == Init /\ [][NextStatement]_vars

\* The per-account balance equals the batch balance at the same cutoff, the
\* end of today.
BalancesAgree ==
    /\ (response.op = "balance" /\ response.status = 200) =>
           response.balance = AccountBalance(response.id, TargetDate(NoYmd))
    /\ response.op = "balances" =>
           \A id \in DOMAIN response.balances :
               response.balances[id] = Balance(id, now)

\* The running balance after the last day of the month equals the account's
\* balance as of the end of that month.
StatementCloses ==
    (/\ response.op = "monthlyStatement"
     /\ response.status = 200
     /\ response.dailyBalances # <<>>) =>
        LET closing == response.dailyBalances[Len(response.dailyBalances)].balances
        IN  \A id \in DOMAIN closing :
                closing[id] = Num(AccountBalance(id, MonthEnd(response.year,
                                                              response.month)))

\* C29: the balance computations agree on every ledger state: the balance of
\* GET /:id/balance equals the one GET /balances/all reports for the same
\* cutoff, and in the monthly statement the running balance of each account
\* after the last day of the month equals the account's balance as of the end
\* of that month.
C29_BalancesAgree == BalancesAgree /\ StatementCloses

\* The first half alone: the per-account and the batch balance agree.
C29_AccountAndBatchAgree == BalancesAgree

(***************************************************************************)
(* Recurrences with an endDate, extended by later /generate runs; one      *)
(* request at a time.                                                      *)
(***************************************************************************)
\* Request bodies of POST /api/recurring: a monthly recurrence that ends after
\* the first 12 months, a 30-day one that ends within them, and one without
\* endDate.
HorizonChoices ==
    {<<"MONTH", 1, <<2024, 1, 31>>, <<2025, 2, 20>>>>,
     <<"DAY",  30, <<2024, 1, 15>>, <<2024, 2, 20>>>>,
     <<"MONTH", 3, <<2024, 2, 10>>, NoYmd>>}

HorizonInputs ==
    {[type |-> "EXPENSE", amount |-> 5000, description |-> "Aluguel",
      interval |-> c[1], intervalCount |-> c[2],
      startDate |-> c[3], endDate |-> c[4],
      accountId |-> "a1", categoryId |-> "c1", creditCardId |-> NULL] :
        c \in HorizonChoices}

\* Request bodies of PUT /api/recurring/:id that move startDate or endDate.
HorizonPatches ==
    {[NoPatch EXCEPT !.endDate = <<2024, 12, 15>>],
     [NoPatch EXCEPT !.startDate = <<2024, 3, 5>>],
     [NoPatch EXCEPT !.endDate = <<2024, 12, 15>>, !.intervalCount = 31]}

NextHorizon ==
    \/ AllIdle /\ \E data \in HorizonInputs : CreateRecurring("u1", data)
    \/ AllIdle /\ \E id \in 1..MaxRecurrences, data \in HorizonPatches :
                     UpdateRecurring("w1", "u1", id, data)
    \/ AllIdle /\ \E id \in 1..MaxRecurrences : PauseRecurring("w1", "u1", id)
    \/ AllIdle /\ \E id \in 1..MaxRecurrences : ResumeRecurring("w1", "u1", id)
    \/ RecurrenceUpdate("w1")
    \/ AllIdle /\ GenerateStart("w1", "u1")
    \/ GenerateFindFirst("w1")
    \/ GenerateCreate("w1")
    \/ GenerateUpdate("w1")
    \/ AllIdle /\ Advance

SpecHorizon == Init /\ [][NextHorizon]_vars

\* C30: every transaction inserted by POST /api/recurring or by a /generate
\* run served at time t has a ledger date d with startDate <= d <= t + 12
\* months and, when the recurrence has an endDate, d <= endDate; a /generate
\* run inserts nothing for a recurrence whose endDate is before t.
C30_InsertedDatesWithinBounds ==
    [][\A i \in (Len(transactions) + 1)..Len(transactions') :
           LET row        == transactions'[i]
               recurrence == recurrences'[row.recurrenceId]
           IN  /\ recurrence.startDate <= row.date
               /\ row.date <= MaxFutureDate(now)
               /\ recurrence.endDate # NONE => row.date <= recurrence.endDate
               /\ gen["w1"].pc # "idle" =>
                      \/ recurrence.endDate = NONE
                      \/ recurrence.endDate >= gen["w1"].clock]_vars

\* A /generate run has inserted transactions for a recurrence that has an
\* endDate: one of them is dated after the 12 months of the second clock
\* value.
C30_ExtendedUpToEndDate ==
    /\ response.op = "generate"
    /\ response.generated > 0
    /\ \E id \in 1..Len(recurrences) :
           /\ recurrences[id].endDate # NONE
           /\ \E i \in 1..Len(transactions) :
                  /\ transactions[i].recurrenceId = id
                  /\ transactions[i].date > MaxFutureDate(ClockAt(1))


(***************************************************************************)
(* The routes of accounts, categories and credit cards.  Worker w1 serves  *)
(* them; worker w2 creates a transaction or a goal, and the requests of    *)
(* the two are served between each other's store calls.                    *)
(***************************************************************************)
\* The number of rows each of the routes creates.
MaxCatalog == 1

\* Request bodies of POST and PUT /api/accounts.
AccountInputs ==
    {[name |-> "Carteira", initialBalance |-> NONE],
     [name |-> "", initialBalance |-> 0]}

AccountPatches ==
    {[name |-> NULL, initialBalance |-> 7000],
     [name |-> "", initialBalance |-> NONE]}

\* Request bodies of POST and PUT /api/categories.
CategoryInputs == {[name |-> "Mercado"], [name |-> ""]}

CategoryPatches == {[name |-> "Casa"], [name |-> ""]}

\* Request bodies of POST and PUT /api/credit-cards.
CreditCardInputs ==
    {[name |-> "Visa", accountId |-> "a1", closingDay |-> 1, dueDay |-> 8],
     [name |-> "Visa", accountId |-> "a2", closingDay |-> 1, dueDay |-> 8],
     [name |-> "Visa", accountId |-> "a1", closingDay |-> MaxDay + 1, dueDay |-> 8],
     [name |-> "", accountId |-> "", closingDay |-> 1, dueDay |-> 8]}

CreditCardPatches ==
    {[name |-> NULL, accountId |-> NULL, closingDay |-> 20, dueDay |-> 28],
     [name |-> NULL, accountId |-> "a3", closingDay |-> NONE, dueDay |-> NONE],
     [name |-> NULL, accountId |-> NULL, closingDay |-> 0, dueDay |-> NONE],
     [name |-> NULL, accountId |-> "", closingDay |-> NONE, dueDay |-> MaxDay + 1]}

\* Request bodies of POST /api/transactions and POST /api/goals of worker w2.
CatalogTransactions ==
    {TransactionBase,
     [TransactionBase EXCEPT !.creditCardId = "k1", !.date = <<2024, 1, 20>>]}

CatalogGoals == {[targetAmount |-> 10000, accountId |-> "a3"]}

NextCatalog ==
    \/ \E data \in AccountInputs :
           lastId.accounts < MaxCatalog /\ CreateAccount("u1", data)
    \/ \E id \in {"a1", "a2"}, data \in AccountPatches :
           UpdateAccount("w1", "u1", id, data)
    \/ AccountUpdate("w1")
    \/ \E id \in {"a1", "a2"}, data \in AccountPatches :
           UpdateAccountMany("w1", "u1", id, data)
    \/ AccountFindUnique("w1")
    \/ \E id \in {"a1", "a2", "a3"} : DeleteAccount("u1", id)
    \/ \E data \in CategoryInputs :
           lastId.categories < MaxCatalog /\ CreateCategory("u1", data)
    \/ \E id \in {"c1", "c2"}, data \in CategoryPatches :
           UpdateCategory("w1", "u1", id, data)
    \/ CategoryFindUnique("w1")
    \/ \E id \in {"c1", "c2"} : DeleteCategory("u1", id)
    \/ \E data \in CreditCardInputs :
           lastId.creditCards < MaxCatalog /\ CreateCreditCard("w1", "u1", data)
    \/ CreditCardCreate("w1")
    \/ \E id \in {"k1", "k2"}, data \in CreditCardPatches :
           UpdateCreditCard("w1", "u1", id, data)
    \/ CreditCardFindFirst("w1")
    \/ CreditCardUpdate("w1")
    \/ \E id \in {"k1", "k2"}, data \in CreditCardPatches :
           UpdateCreditCardMany("w1", "u1", id, data)
    \/ CreditCardUpdateManyStep("w1")
    \/ CreditCardFindUnique("w1")
    \/ \E id \in {"k1", "k2"} : DeleteCreditCard("u1", id)
    \/ \E data \in CatalogTransactions :
           lastId.transactions < MaxCatalog /\ CreateTransaction("w2", "u1", data)
    \/ TransactionCreate("w2")
    \/ \E data \in CatalogGoals : CreateGoal("w2", "u1", data)
    \/ GoalCreate("w2")

SpecCatalog == Init /\ [][NextCatalog]_vars

\* The foreign keys of the tables hold in every state of these routes.
CatalogForeignKeys ==
    /\ \A i \in 1..Len(transactions) : ParentRowsExist(transactions[i])
    /\ \A k \in DOMAIN creditCards : creditCards[k].accountId \in DOMAIN accounts
    /\ \A g \in 1..Len(goals) : goals[g].deleted \/ GoalAccountExists(goals[g])

=============================================================================
